---- MODULE Spec2Model ----
(***************************************************************************)
(* Resin Prophet (resin_prophet.py): the SQLite store of cartridges, print *)
(* jobs and the daily usage ledger, the consumption recorder and the       *)
(* forecast engine, as a state machine.                                    *)
(*                                                                         *)
(* Volumes are whole millilitres.  A percentage or an average is kept as   *)
(* an exact fraction <<numerator, denominator>> with denominator > 0, so   *)
(* that threshold comparisons are the ones the code makes.  A Python       *)
(* Optional is a sequence: <<>> is None, <<x>> is the value x.             *)
(* A table is the sequence of its rows in rowid order.                     *)
(*                                                                         *)
(* Two more stores of the bot are modelled beside it: the notification     *)
(* service (notification_service.py), which polls the prints of a user and *)
(* sends a message when a tracked print reaches a final status, and the    *)
(* maintenance tracker (maintenance_tracker.py), the log of the tasks done *)
(* per user and printer.  The access list of the bot (access_control.py),   *)
(* the file of the approved, pending and rejected users, is the third.     *)
(***************************************************************************)
EXTENDS Integers, Sequences, FiniteSets, TLC

VARIABLES
    cartridges,   \* table resin_cartridges
    jobs,         \* table print_jobs
    usage,        \* table resin_usage_history
    today,        \* the calendar day datetime.now() falls on
    last,         \* the last call of the API: its arguments and what it returned
    log,          \* history: per (day, user, material) what record_usage was asked to record
    pc,           \* position of each concurrent caller inside consume_resin / record_usage
    frame,        \* local variables of each concurrent caller
    subscriptions,    \* table subscriptions of the notification service
    tracked_prints,   \* table tracked_prints: per print guid its row, or None
    polled,           \* the last _check_user: the client, what it listed, what was sent
    maintenance_log,  \* table maintenance_log
    asked,            \* the last call of the maintenance tracker and what it returned
    access_file,      \* approved_users.json: None while the file does not exist
    answer            \* the last call of the access control and what it returned

\* the tables and the last poll of the notification service
notification_vars == <<subscriptions, tracked_prints, polled>>

\* the table and the last call of the maintenance tracker
maintenance_vars == <<maintenance_log, asked>>

\* the file and the last call of the access control
access_vars == <<access_file, answer>>

vars == <<cartridges, jobs, usage, today, last, log, pc, frame,
          subscriptions, tracked_prints, polled, maintenance_log, asked,
          access_file, answer>>

----------------------------------------------------------------------------
(* Bounds of the model *)

\* the last day the clock reaches (days are 0..MaxDay)
MaxDay == 1
\* the number of record_usage calls in all, in the sequential system
MaxPrints == 2
\* the number of record_usage calls in all, in the system of the ledger
MaxRecords == 3
\* the number of consume_resin and record_usage calls in all, in the concurrent system
MaxCalls == 3

Tenants == {1, 2}
CartridgeIds == {"cart_001", "cart_002"}
Materials == {"FLGPGR05", "FLTO2K02"}
Days == 0..MaxDay
Keys == Days \X Tenants \X Materials

----------------------------------------------------------------------------
(* Python helpers *)

None == <<>>

Some(x) == <<x>>

Max(a, b) == IF a >= b THEN a ELSE b

\* int(a / b) for b > 0: truncation toward zero
TruncDiv(a, b) == IF a >= 0 THEN a \div b ELSE -((-a) \div b)

\* p < t for a fraction p and an integer t
FracLT(p, t) == p[1] < t * p[2]

\* sum(s) of a list of integers
Sum(s) ==
    LET partial[i \in 0..Len(s)] == IF i = 0 THEN 0 ELSE partial[i - 1] + s[i]
    IN  partial[Len(s)]

\* list.sort(key=...) and ORDER BY, given the list keys of the keys of s: the
\* sort is stable, so the element at index i moves behind every element of
\* smaller key and every earlier element of equal key
StableSort(s, keys) ==
    LET rank(i) == 1 + Cardinality({j \in 1..Len(s) :
                        \/ keys[j] < keys[i]
                        \/ (keys[j] = keys[i] /\ j < i)})
    IN  [p \in 1..Len(s) |-> s[CHOOSE i \in 1..Len(s) : rank(i) = p]]

----------------------------------------------------------------------------
(* ResinCartridge *)

percent_remaining(c) ==
    IF c.initial_volume_ml <= 0 THEN <<0, 1>>
    ELSE <<c.current_volume_ml * 100, c.initial_volume_ml>>

----------------------------------------------------------------------------
(* ResinDatabase *)

\* INSERT OR REPLACE by primary key id: the old row goes, the new row gets a new rowid
add_cartridge(table, cartridge) ==
    Append(SelectSeq(table, LAMBDA r : r.id # cartridge.id), cartridge)

get_cartridge(table, cartridge_id) ==
    LET rows == SelectSeq(table, LAMBDA r : r.id = cartridge_id)
    IN  IF rows = <<>> THEN None ELSE Some(rows[1])

get_user_cartridges_with_removed(table, user_id) ==
    SelectSeq(table, LAMBDA r : r.user_id = user_id)

get_user_cartridges(table, user_id) ==
    SelectSeq(table, LAMBDA r : r.user_id = user_id /\ r.status # "removed")

update_cartridge_volume_and_status(table, cartridge_id, new_volume_ml) ==
    [i \in 1..Len(table) |->
        IF table[i].id = cartridge_id
        THEN [table[i] EXCEPT !.current_volume_ml = new_volume_ml,
                              !.status = IF new_volume_ml * 100 < 20 * table[i].initial_volume_ml
                                         THEN "low" ELSE "active"]
        ELSE table[i]]

\* UPDATE ... SET current_volume_ml = ?, last_updated = ? WHERE id = ?
update_cartridge_volume(table, cartridge_id, new_volume_ml) ==
    [i \in 1..Len(table) |->
        IF table[i].id = cartridge_id
        THEN [table[i] EXCEPT !.current_volume_ml = new_volume_ml]
        ELSE table[i]]

add_print_job(table, job) ==
    Append(SelectSeq(table, LAMBDA r : r.id # job.id), job)

\* a datetime: the hour its wall clock shows and its UTC offset in hours, None
\* when the datetime is naive
datetime(hour, utcoffset) == [hour |-> hour, utcoffset |-> utcoffset]

\* datetime.isoformat(): the text of the wall clock, then "+hh:00" when the
\* datetime is aware.  The text is kept as the pair of the two parts.
isoformat(dt) == <<dt.hour, dt.utcoffset>>

\* a < b of two texts of isoformat, as SQLite compares TEXT: by the wall clock,
\* and of two texts of one wall clock the one without offset is a prefix of
\* the other and smaller, "+00:00" is smaller than "+02:00"
text_less(a, b) ==
    \/ a[1] < b[1]
    \/ /\ a[1] = b[1]
       /\ \/ a[2] = None /\ b[2] # None
          \/ a[2] # None /\ b[2] # None /\ a[2][1] < b[2][1]

\* material_code is "" when the caller passes None or the empty string: both
\* are falsy and select the query without a material.  ORDER BY created_at
\* sorts by the text stored; rows of equal text stay in rowid order.
get_queued_jobs(table, user_id, material_code) ==
    LET rows == SelectSeq(table, LAMBDA r :
                    /\ r.user_id = user_id
                    /\ (material_code # "" => r.material_code = material_code)
                    /\ r.status \in {"queued", "printing"})
        text == [i \in 1..Len(rows) |-> isoformat(rows[i].created_at)]
    IN  StableSort(rows, [i \in 1..Len(rows) |->
                            Cardinality({j \in 1..Len(rows) : text_less(text[j], text[i])})])

\* the dates of the rows of (user, material) later than now - days.  A date is
\* "YYYY-MM-DD" and since is the ISO timestamp of now - days, so the day of
\* since itself compares smaller and is left out.
history_dates(hist, now, user_id, material_code, days) ==
    {hist[i].date : i \in {j \in 1..Len(hist) :
        /\ hist[j].user_id = user_id
        /\ hist[j].material_code = material_code
        /\ hist[j].date > now - days}}

RECURSIVE history_rows(_, _, _, _)
history_rows(hist, dates, user_id, material_code) ==
    IF dates = {} THEN <<>>
    ELSE LET d == CHOOSE x \in dates : \A y \in dates : x <= y
             rows == SelectSeq(hist, LAMBDA r :
                        /\ r.user_id = user_id
                        /\ r.material_code = material_code
                        /\ r.date = d)
         IN  <<[date |-> d,
                volume_ml |-> Sum([i \in 1..Len(rows) |-> rows[i].volume_used_ml]),
                prints |-> Sum([i \in 1..Len(rows) |-> rows[i].print_count])]>>
             \o history_rows(hist, dates \ {d}, user_id, material_code)

\* GROUP BY date ORDER BY date
get_usage_history(hist, now, user_id, material_code, days) ==
    history_rows(hist, history_dates(hist, now, user_id, material_code, days),
                 user_id, material_code)

\* record_usage, the SELECT: fetchone() of the rows of (today, user, material)
record_usage_select(hist, now, user_id, material_code) ==
    LET ids == {i \in 1..Len(hist) :
                    /\ hist[i].date = now
                    /\ hist[i].user_id = user_id
                    /\ hist[i].material_code = material_code}
    IN  IF ids = {} THEN None
        ELSE LET i == CHOOSE x \in ids : \A y \in ids : x <= y
             IN  Some([id |-> i,
                       volume_used_ml |-> hist[i].volume_used_ml,
                       print_count |-> hist[i].print_count])

record_usage_overwrite(hist, existing, now, user_id, material_code, volume_ml) ==
    IF existing # None
    THEN [i \in 1..Len(hist) |->
            IF i = existing[1].id
            THEN [hist[i] EXCEPT !.volume_used_ml = volume_ml,
                                 !.print_count = existing[1].print_count + 1]
            ELSE hist[i]]
    ELSE Append(hist, [date |-> now, material_code |-> material_code, user_id |-> user_id,
                       volume_used_ml |-> volume_ml, print_count |-> 1])

\* record_usage, the UPDATE of the row that was read, or the INSERT
record_usage_write(hist, existing, now, user_id, material_code, volume_ml) ==
    IF existing # None
    THEN [i \in 1..Len(hist) |->
            IF i = existing[1].id
            THEN [hist[i] EXCEPT !.volume_used_ml = existing[1].volume_used_ml + volume_ml,
                                 !.print_count = existing[1].print_count + 1]
            ELSE hist[i]]
    ELSE Append(hist, [date |-> now, material_code |-> material_code, user_id |-> user_id,
                       volume_used_ml |-> volume_ml, print_count |-> 1])

\* record_usage run by one caller with nothing in between
record_usage(hist, now, user_id, material_code, volume_ml) ==
    record_usage_write(hist, record_usage_select(hist, now, user_id, material_code),
                       now, user_id, material_code, volume_ml)

----------------------------------------------------------------------------
(* ResinProphet *)

ALERT_INFO == 30
ALERT_WARNING == 20
ALERT_CRITICAL == 10

\* the windows of the two estimates, in days
AVERAGE_WINDOW == 30
BURN_WINDOW == 14

\* current_volume_ml or initial_volume_ml: None and 0 are both falsy.  The
\* callers modelled pass no printer_id, so that it is None.
register_cartridge(cartridge_id, material_code, user_id, initial_volume_ml, current_volume_ml) ==
    [id |-> cartridge_id,
     material_code |-> material_code,
     initial_volume_ml |-> initial_volume_ml,
     current_volume_ml |-> IF current_volume_ml = None \/ current_volume_ml = Some(0)
                           THEN initial_volume_ml
                           ELSE current_volume_ml[1],
     printer_id |-> None,
     user_id |-> user_id,
     status |-> "active"]

default_print_volume(material_code) ==
    CASE material_code = "FLGPGR05" -> 45
      [] material_code = "FLGPBK05" -> 45
      [] material_code = "FLGPCL05" -> 45
      [] material_code = "FLTO2K02" -> 60
      [] material_code = "FLDUCL21" -> 50
      [] OTHER -> 50

get_average_print_volume_per_day(hist, now, user_id, material_code) ==
    LET history == get_usage_history(hist, now, user_id, material_code, AVERAGE_WINDOW)
        total_volume == Sum([i \in 1..Len(history) |-> history[i].volume_ml])
    IN  IF history = <<>> THEN <<default_print_volume(material_code), 1>>
        ELSE <<total_volume, Len(history)>>

\* the average volume of a print, as a fraction
get_average_print_volume(hist, now, user_id, material_code) ==
    LET history == get_usage_history(hist, now, user_id, material_code, AVERAGE_WINDOW)
        total_volume == Sum([i \in 1..Len(history) |-> history[i].volume_ml])
        total_prints == Sum([i \in 1..Len(history) |-> history[i].prints])
    IN  IF history = <<>> THEN <<default_print_volume(material_code), 1>>
        ELSE IF total_prints > 0 THEN <<total_volume, total_prints>>
        ELSE <<50, 1>>

calculate_days_remaining_of_empty_history(hist, now, user_id, material_code, current_volume) ==
    LET history == get_usage_history(hist, now, user_id, material_code, BURN_WINDOW)
        total_volume == Sum([i \in 1..Len(history) |-> history[i].volume_ml])
        days == Len(history)
    IN  IF days > 0 /\ total_volume > 0
        THEN Some(<<current_volume * days, total_volume>>)
        ELSE Some(<<0, 1>>)

\* the days until depletion, as an optional fraction
calculate_days_remaining(hist, now, user_id, material_code, current_volume) ==
    LET history == get_usage_history(hist, now, user_id, material_code, BURN_WINDOW)
        total_volume == Sum([i \in 1..Len(history) |-> history[i].volume_ml])
        days == Len(history)
    IN  IF history = <<>> THEN None
        ELSE IF days > 0 /\ total_volume > 0
             THEN Some(<<current_volume * days, total_volume>>)
             ELSE None

\* daily_usage = total_volume / days for a total_volume > 0 that is a whole
\* number of the least positive float (5e-324 ml), in that unit.  A float of
\* that size is a whole number of the unit, so the quotient is rounded to the
\* nearest whole number, a tie to the even one.
daily_usage(total_volume, days) ==
    LET q == total_volume \div days
        r == total_volume % days
    IN  IF 2 * r > days THEN q + 1
        ELSE IF 2 * r < days THEN q
        ELSE IF q % 2 = 0 THEN q ELSE q + 1

\* _calculate_days_remaining over a ledger and a current volume given in units
\* of the least positive float: what it returns, or that current_volume /
\* daily_usage raised ZeroDivisionError
calculate_days_remaining_rounded(hist, now, user_id, material_code, current_volume) ==
    LET history == get_usage_history(hist, now, user_id, material_code, BURN_WINDOW)
        total_volume == Sum([i \in 1..Len(history) |-> history[i].volume_ml])
        days == Len(history)
    IN  IF history = <<>> THEN [raised |-> FALSE, days_remaining |-> None]
        ELSE IF days > 0 /\ total_volume > 0
             THEN IF daily_usage(total_volume, days) = 0
                  THEN [raised |-> TRUE, days_remaining |-> None]
                  ELSE [raised |-> FALSE,
                        days_remaining |->
                            Some(<<current_volume, daily_usage(total_volume, days)>>)]
             ELSE [raised |-> FALSE, days_remaining |-> None]

\* now + timedelta(days=days_remaining), or None
depletion_date(now, days_remaining) ==
    IF days_remaining # None THEN Some(<<now, days_remaining[1]>>) ELSE None

alert_level_inclusive(percent) ==
    IF percent[1] <= ALERT_CRITICAL * percent[2] THEN "critical"
    ELSE IF percent[1] <= ALERT_WARNING * percent[2] THEN "warning"
    ELSE IF percent[1] <= ALERT_INFO * percent[2] THEN "info"
    ELSE "none"

alert_level_of(percent) ==
    IF FracLT(percent, ALERT_CRITICAL) THEN "critical"
    ELSE IF FracLT(percent, ALERT_WARNING) THEN "warning"
    ELSE IF FracLT(percent, ALERT_INFO) THEN "info"
    ELSE "none"

status_of(percent) ==
    IF FracLT(percent, 5) THEN "empty"
    ELSE IF FracLT(percent, 10) THEN "critical"
    ELSE IF FracLT(percent, 20) THEN "low"
    ELSE "active"

predicted_cartridge_stale(cartridge) == cartridge

predicted_cartridge_unassigned(cartridge) ==
    [cartridge EXCEPT !.status = status_of(percent_remaining(cartridge)),
                      !.printer_id = None]

\* the cartridge row predict() writes back
predicted_cartridge(cartridge) ==
    [cartridge EXCEPT !.status = status_of(percent_remaining(cartridge))]

has_access_without_owner(cartridge, user_id) == cartridge # None

\* may user_id see the cartridge get_cartridge returned
has_access(cartridge, user_id) ==
    cartridge # None /\ cartridge[1].user_id = user_id

\* the ResinPrediction predict() builds of the cartridge it read, the queued
\* jobs, the average volume of a print and the days remaining it found
resin_prediction(cartridge, queued_jobs, avg, days_remaining, now) ==
    [cartridge_id |-> cartridge.id,
     current_volume_ml |-> cartridge.current_volume_ml,
     percent_remaining |-> percent_remaining(cartridge),
     status |-> predicted_cartridge(cartridge).status,
     estimated_prints_remaining |->
         IF avg[1] > 0
         THEN TruncDiv(cartridge.current_volume_ml * avg[2], avg[1])
         ELSE 0,
     estimated_days_remaining |-> days_remaining,
     estimated_depletion_date |-> depletion_date(now, days_remaining),
     alert_level |-> alert_level_of(percent_remaining(cartridge)),
     queued_jobs_count |-> Len(queued_jobs),
     queued_jobs_volume_ml |->
         Sum([i \in 1..Len(queued_jobs) |-> queued_jobs[i].estimated_resin_ml])]

\* predict(): the table it leaves and the optional ResinPrediction it returns
predict(table, jobtable, hist, now, cartridge_id, user_id) ==
    LET found == get_cartridge(table, cartridge_id)
    IN  IF ~has_access(found, user_id) THEN [table |-> table, pred |-> None]
        ELSE
        LET cartridge == found[1]
        IN  [table |-> add_cartridge(table, predicted_cartridge(cartridge)),
             pred |-> Some(resin_prediction(cartridge,
                        get_queued_jobs(jobtable, user_id, cartridge.material_code),
                        get_average_print_volume(hist, now, user_id, cartridge.material_code),
                        calculate_days_remaining(hist, now, user_id, cartridge.material_code,
                                                 cartridge.current_volume_ml),
                        now))]

\* alert_order.get(alert_level, 4)
alert_order(alert_level) ==
    CASE alert_level = "critical" -> 0
      [] alert_level = "warning" -> 1
      [] alert_level = "info" -> 2
      [] alert_level = "none" -> 3
      [] OTHER -> 4

sort_predictions_unstable(predictions) ==
    LET n == Len(predictions)
        reversed == [i \in 1..n |-> predictions[n + 1 - i]]
    IN  StableSort(reversed, [i \in 1..n |-> alert_order(reversed[i].alert_level)])

sort_predictions(predictions) ==
    StableSort(predictions,
               [i \in 1..Len(predictions) |-> alert_order(predictions[i].alert_level)])

\* get_all_predictions(): predict() over the listed cartridges in turn, then the sort
get_all_predictions(table, jobtable, hist, now, user_id) ==
    LET listed == get_user_cartridges(table, user_id)
        run[i \in 0..Len(listed)] ==
            IF i = 0 THEN [table |-> table, preds |-> <<>>]
            ELSE LET r == predict(run[i - 1].table, jobtable, hist, now, listed[i].id, user_id)
                 IN  [table |-> r.table, preds |-> run[i - 1].preds \o r.pred]
    IN  [table |-> run[Len(listed)].table,
         preds |-> sort_predictions(run[Len(listed)].preds)]

consumed_volume_unclamped(current_volume_ml, volume_ml) == current_volume_ml - volume_ml

\* consume_resin(): the balance it stores
consumed_volume(current_volume_ml, volume_ml) == Max(0, current_volume_ml - volume_ml)

----------------------------------------------------------------------------
(* NotificationDB and NotificationService *)

\* statuses that trigger a notification
NOTIFY_STATUSES == {"FINISHED", "ERROR", "ABORTED"}

ACTIVE_STATUSES == {"PRINTING", "PREPRINT", "PREHEAT", "PRECOAT", "POSTCOAT"}

\* str.upper() on the statuses the Web API reports
upper(status) ==
    CASE status = "finished" -> "FINISHED"
      [] status = "printing" -> "PRINTING"
      [] status = "error" -> "ERROR"
      [] status = "aborted" -> "ABORTED"
      [] OTHER -> status

\* INSERT OR REPLACE by (user_id, printer_serial), enabled = 1
subscribe(subs, user_id, printer_serial) ==
    subs \cup {[user_id |-> user_id, printer_serial |-> printer_serial]}

\* DELETE FROM subscriptions WHERE user_id = ?
unsubscribe(subs, user_id) == {sub \in subs : sub.user_id # user_id}

get_subscribers(subs) == subs

\* SELECT last_status of the row of the guid, None without a row
get_tracked_status(tracked, print_guid) ==
    IF tracked[print_guid] = None THEN None
    ELSE Some(tracked[print_guid][1].last_status)

\* INSERT OR REPLACE by print_guid
update_tracked_print(tracked, print_guid, user_id, printer_serial, status) ==
    [tracked EXCEPT ![print_guid] =
        Some([user_id |-> user_id, printer_serial |-> printer_serial,
              last_status |-> status])]

should_notify_any_change(old_status, new_status) ==
    /\ old_status # None /\ old_status # Some("")
    /\ old_status[1] # new_status

\* old_status and old_status != new_status and new_status in NOTIFY_STATUSES:
\* None and the empty string are both falsy
should_notify(old_status, new_status) ==
    /\ old_status # None /\ old_status # Some("")
    /\ old_status[1] # new_status
    /\ new_status \in NOTIFY_STATUSES

\* _check_user(): reports are the prints list_prints returned, over the queries
\* of the statuses one after the other (a query that raises adds none); client
\* is "none", "unauthenticated" or "authenticated".  Gives the table it leaves,
\* whether list_prints was called and the messages handed to send_message.
check_user(tracked, user_id, client, reports) ==
    LET run[i \in 0..Len(reports)] ==
            IF i = 0 THEN [tracked |-> tracked, sent |-> <<>>]
            ELSE LET p == reports[i]
                     before == run[i - 1]
                     new_status == upper(p.status)
                     old_status == get_tracked_status(before.tracked, p.guid)
                 IN  IF p.guid = "" THEN before
                     ELSE [tracked |-> update_tracked_print(before.tracked, p.guid, user_id,
                                                            p.printer, new_status),
                           sent |-> IF should_notify(old_status, new_status)
                                    THEN Append(before.sent,
                                                [user_id |-> user_id, guid |-> p.guid,
                                                 old_status |-> old_status[1],
                                                 new_status |-> new_status])
                                    ELSE before.sent]
    IN  IF client # "authenticated"
        THEN [tracked |-> tracked, fetched |-> FALSE, sent |-> <<>>]
        ELSE [tracked |-> run[Len(reports)].tracked, fetched |-> TRUE,
              sent |-> run[Len(reports)].sent]

----------------------------------------------------------------------------
(* MaintenanceTracker.  A time is a whole number of days: completed_at and   *)
(* now are days, and now - last is their difference.                         *)

\* the keys of MAINTENANCE_TASKS, in the order of the dict
MAINTENANCE_TASKS ==
    <<"optical_window_clean", "resin_tank_inspect", "build_platform_clean",
      "resin_filter", "firmware_check">>

interval_days(task_id) ==
    CASE task_id = "optical_window_clean" -> 14
      [] task_id = "resin_tank_inspect" -> 30
      [] task_id = "build_platform_clean" -> 7
      [] task_id = "resin_filter" -> 30
      [] task_id = "firmware_check" -> 30

\* mark_done(): the table it leaves and what it returns
mark_done(mlog, now, user_id, printer_serial, task_id) ==
    IF ~\E i \in 1..Len(MAINTENANCE_TASKS) : MAINTENANCE_TASKS[i] = task_id
    THEN [log |-> mlog, ok |-> FALSE]
    ELSE [log |-> Append(mlog, [user_id |-> user_id, printer_serial |-> printer_serial,
                                task_id |-> task_id, completed_at |-> now]),
          ok |-> TRUE]

get_last_done_on_any_printer(mlog, user_id, printer_serial, task_id) ==
    LET times == {mlog[i].completed_at : i \in {j \in 1..Len(mlog) :
                        /\ mlog[j].user_id = user_id
                        /\ mlog[j].task_id = task_id}}
    IN  IF times = {} THEN None
        ELSE Some(CHOOSE t \in times : \A x \in times : x <= t)

\* ORDER BY completed_at DESC LIMIT 1 over the rows of (user, printer, task)
get_last_done(mlog, user_id, printer_serial, task_id) ==
    LET times == {mlog[i].completed_at : i \in {j \in 1..Len(mlog) :
                        /\ mlog[j].user_id = user_id
                        /\ mlog[j].printer_serial = printer_serial
                        /\ mlog[j].task_id = task_id}}
    IN  IF times = {} THEN None
        ELSE Some(CHOOSE t \in times : \A x \in times : x <= t)

\* get_due_tasks(): the entry of one task
due_task(mlog, now, user_id, printer_serial, task_id) ==
    LET last_done == get_last_done(mlog, user_id, printer_serial, task_id)
        interval == interval_days(task_id)
    IN  [task_id |-> task_id,
         interval_days |-> interval,
         last_done |-> last_done,
         status |-> IF last_done = None THEN "never_done"
                    ELSE IF now - last_done[1] > interval THEN "overdue"
                    ELSE "ok",
         days_overdue |-> IF last_done = None THEN interval
                          ELSE IF now - last_done[1] > interval
                               THEN (now - last_done[1]) - interval
                               ELSE -(last_done[1] + interval - now)]

\* get_due_tasks(): the entries of all tasks, sorted by days_overdue, largest first
get_due_tasks(mlog, now, user_id, printer_serial) ==
    LET due == [i \in 1..Len(MAINTENANCE_TASKS) |->
                    due_task(mlog, now, user_id, printer_serial, MAINTENANCE_TASKS[i])]
    IN  StableSort(due, [i \in 1..Len(due) |-> -due[i].days_overdue])

----------------------------------------------------------------------------
(* access_control.  A user id is written as the string of its digits: ids are  *)
(* only compared for equality.                                                 *)

ADMINS == {"6217674573"}

\* list(ADMINS)
list_of_admins == <<"6217674573">>

\* x in l
contains(l, x) == \E i \in 1..Len(l) : l[i] = x

\* l.remove(x) for an x in l: the first x goes
remove(l, x) ==
    LET first == CHOOSE i \in 1..Len(l) : l[i] = x /\ \A j \in 1..(i - 1) : l[j] # x
    IN  [i \in 1..(Len(l) - 1) |-> IF i < first THEN l[i] ELSE l[i + 1]]

\* _load_data(): the data of the file, and the file, which is written with the
\* admins as the approved users when it did not exist
load_data(file) ==
    IF file = None
    THEN LET data == [approved |-> list_of_admins, pending |-> <<>>, rejected |-> <<>>,
                      admin |-> list_of_admins]
         IN  [data |-> data, file |-> Some(data)]
    ELSE [data |-> file[1], file |-> file]

is_allowed(file, user_id) ==
    [file |-> load_data(file).file,
     ok |-> contains(load_data(file).data.approved, user_id) \/ user_id \in ADMINS]

is_admin(user_id) == user_id \in ADMINS

\* request_access(): the file it leaves and whether the user is allowed
request_access(file, user_id) ==
    LET loaded == load_data(file)
        data == loaded.data
    IN  IF contains(data.approved, user_id) THEN [file |-> loaded.file, ok |-> TRUE]
        ELSE IF contains(data.pending, user_id) THEN [file |-> loaded.file, ok |-> FALSE]
        ELSE IF contains(data.rejected, user_id) THEN [file |-> loaded.file, ok |-> FALSE]
        ELSE [file |-> Some([data EXCEPT !.pending = Append(data.pending, user_id)]),
              ok |-> FALSE]

approve_user_keeping_rejected(file, user_id, admin_id) ==
    IF ~is_admin(admin_id) THEN [file |-> file, ok |-> FALSE]
    ELSE
    LET data == load_data(file).data
        pending == IF contains(data.pending, user_id) THEN remove(data.pending, user_id)
                   ELSE data.pending
        approved == IF ~contains(data.approved, user_id) THEN Append(data.approved, user_id)
                    ELSE data.approved
    IN  [file |-> Some([data EXCEPT !.pending = pending, !.approved = approved]),
         ok |-> TRUE]

\* approve_user(): the file it leaves and what it returns
approve_user(file, user_id, admin_id) ==
    IF ~is_admin(admin_id) THEN [file |-> file, ok |-> FALSE]
    ELSE
    LET data == load_data(file).data
        pending == IF contains(data.pending, user_id) THEN remove(data.pending, user_id)
                   ELSE data.pending
        rejected == IF contains(data.rejected, user_id) THEN remove(data.rejected, user_id)
                    ELSE data.rejected
        approved == IF ~contains(data.approved, user_id) THEN Append(data.approved, user_id)
                    ELSE data.approved
    IN  [file |-> Some([data EXCEPT !.pending = pending, !.rejected = rejected,
                                    !.approved = approved]),
         ok |-> TRUE]

\* reject_user(): the file it leaves and what it returns
reject_user(file, user_id, admin_id) ==
    IF ~is_admin(admin_id) THEN [file |-> file, ok |-> FALSE]
    ELSE
    LET data == load_data(file).data
        pending == IF contains(data.pending, user_id) THEN remove(data.pending, user_id)
                   ELSE data.pending
        approved == IF contains(data.approved, user_id) THEN remove(data.approved, user_id)
                    ELSE data.approved
        rejected == IF ~contains(data.rejected, user_id) THEN Append(data.rejected, user_id)
                    ELSE data.rejected
    IN  [file |-> Some([data EXCEPT !.pending = pending, !.approved = approved,
                                    !.rejected = rejected]),
         ok |-> TRUE]

----------------------------------------------------------------------------
(* The calls of the API as actions *)

Callers == {"a", "b"}

\* a call: volume_ml is the volume it was given (of register_cartridge the current
\* volume, which defaults to the initial one), balance the balance consume_resin read
Call(op, user_id, id, ok, preds) ==
    [op |-> op, user_id |-> user_id, id |-> id, ok |-> ok, preds |-> preds,
     volume_ml |-> 0, balance |-> 0]

NoCall == Call("none", 0, "", TRUE, <<>>)

NoFrame == [cartridge_id |-> "", user_id |-> 0, material_code |-> "", volume_ml |-> 0,
            day |-> 0, cartridge |-> None, existing |-> None,
            queued_jobs |-> <<>>, avg |-> <<0, 1>>, days_remaining |-> None]

\* the guids of the prints of the Web API
Guids == {"guid-1"}

\* no poll was made; turn changes with every poll
NoPoll == [user_id |-> 0, client |-> "none", reports |-> <<>>, fetched |-> FALSE,
           sent |-> <<>>, turn |-> 0]

\* no call of the access control was made
NoAnswer == [op |-> "none", user_id |-> "", admin_id |-> "", ok |-> TRUE]

\* no call of the maintenance tracker was made
NoAsk == [op |-> "none", user_id |-> 0, printer_serial |-> "", task_id |-> "",
          ok |-> TRUE, tasks |-> <<>>]

Init ==
    /\ cartridges = <<>>
    /\ jobs = <<>>
    /\ usage = <<>>
    /\ today = 0
    /\ last = NoCall
    /\ log = [k \in Keys |-> [volume_ml |-> 0, prints |-> 0]]
    /\ pc = [p \in Callers |-> "idle"]
    /\ frame = [p \in Callers |-> NoFrame]
    /\ subscriptions = {}
    /\ tracked_prints = [g \in Guids |-> None]
    /\ polled = NoPoll
    /\ maintenance_log = <<>>
    /\ asked = NoAsk
    /\ access_file = None
    /\ answer = NoAnswer

RECURSIVE LogPrints(_, _)
LogPrints(l, keys) ==
    IF keys = {} THEN 0
    ELSE LET k == CHOOSE x \in keys : TRUE
         IN  l[k].prints + LogPrints(l, keys \ {k})

\* fewer than limit record_usage calls were made
LedgerOpen(limit) == LogPrints(log, Keys) < limit

Logged(l, day, user_id, material_code, volume_ml) ==
    [l EXCEPT ![<<day, user_id, material_code>>] =
        [volume_ml |-> @.volume_ml + volume_ml, prints |-> @.prints + 1]]

Register(cartridge_id, material_code, user_id, initial_volume_ml, current_volume_ml) ==
    /\ cartridges' = add_cartridge(cartridges,
            register_cartridge(cartridge_id, material_code, user_id,
                               initial_volume_ml, current_volume_ml))
    /\ last' = [Call("register", user_id, cartridge_id, TRUE, <<>>)
                    EXCEPT !.volume_ml = IF current_volume_ml = None THEN initial_volume_ml
                                         ELSE current_volume_ml[1]]
    /\ UNCHANGED <<jobs, usage, today, log, pc, frame, notification_vars, maintenance_vars, access_vars>>

AddPrintJob(job) ==
    /\ jobs' = add_print_job(jobs, job)
    /\ last' = Call("add_print_job", job.user_id, job.id, TRUE, <<>>)
    /\ UNCHANGED <<cartridges, usage, today, log, pc, frame, notification_vars, maintenance_vars, access_vars>>

RecordUsage(user_id, material_code, volume_ml) ==
    /\ usage' = record_usage(usage, today, user_id, material_code, volume_ml)
    /\ log' = Logged(log, today, user_id, material_code, volume_ml)
    /\ last' = [Call("record_usage", user_id, material_code, TRUE, <<>>)
                    EXCEPT !.volume_ml = volume_ml]
    /\ UNCHANGED <<cartridges, jobs, today, pc, frame, notification_vars, maintenance_vars, access_vars>>

Predict_reporting_stored_status(cartridge_id, user_id) ==
    LET r == predict(cartridges, jobs, usage, today, cartridge_id, user_id)
        found == get_cartridge(cartridges, cartridge_id)
        pred == IF r.pred = None THEN None
                ELSE Some([r.pred[1] EXCEPT !.status = found[1].status])
    IN  /\ cartridges' = r.table
        /\ last' = Call("predict", user_id, cartridge_id, pred # None, pred)
        /\ UNCHANGED <<jobs, usage, today, log, pc, frame, notification_vars, maintenance_vars, access_vars>>

Predict(cartridge_id, user_id) ==
    LET r == predict(cartridges, jobs, usage, today, cartridge_id, user_id)
    IN  /\ cartridges' = r.table
        /\ last' = Call("predict", user_id, cartridge_id, r.pred # None, r.pred)
        /\ UNCHANGED <<jobs, usage, today, log, pc, frame, notification_vars, maintenance_vars, access_vars>>

GetAllPredictions(user_id) ==
    LET r == get_all_predictions(cartridges, jobs, usage, today, user_id)
    IN  /\ cartridges' = r.table
        /\ last' = Call("get_all_predictions", user_id, "", TRUE, r.preds)
        /\ UNCHANGED <<jobs, usage, today, log, pc, frame, notification_vars, maintenance_vars, access_vars>>

Consume_recording_denied(cartridge_id, volume_ml, user_id) ==
    LET cartridge == get_cartridge(cartridges, cartridge_id)
    IN  /\ last' = [Call("consume", user_id, cartridge_id, has_access(cartridge, user_id), <<>>)
                        EXCEPT !.volume_ml = volume_ml,
                               !.balance = IF cartridge = None THEN 0
                                           ELSE cartridge[1].current_volume_ml]
        /\ IF cartridge = None
           THEN UNCHANGED <<cartridges, usage, log>>
           ELSE IF ~has_access(cartridge, user_id)
           THEN /\ usage' = record_usage(usage, today, user_id,
                                         cartridge[1].material_code, volume_ml)
                /\ UNCHANGED <<cartridges, log>>
           ELSE /\ cartridges' = update_cartridge_volume(cartridges, cartridge_id,
                        consumed_volume(cartridge[1].current_volume_ml, volume_ml))
                /\ usage' = record_usage(usage, today, user_id,
                                         cartridge[1].material_code, volume_ml)
                /\ log' = Logged(log, today, user_id, cartridge[1].material_code, volume_ml)
        /\ UNCHANGED <<jobs, today, pc, frame, notification_vars, maintenance_vars, access_vars>>

Consume_recording_clamped(cartridge_id, volume_ml, user_id) ==
    LET cartridge == get_cartridge(cartridges, cartridge_id)
        taken == IF cartridge = None THEN 0
                 ELSE cartridge[1].current_volume_ml
                        - consumed_volume(cartridge[1].current_volume_ml, volume_ml)
    IN  /\ last' = [Call("consume", user_id, cartridge_id, has_access(cartridge, user_id), <<>>)
                        EXCEPT !.volume_ml = volume_ml,
                               !.balance = IF cartridge = None THEN 0
                                           ELSE cartridge[1].current_volume_ml]
        /\ IF ~has_access(cartridge, user_id)
           THEN UNCHANGED <<cartridges, usage, log>>
           ELSE /\ cartridges' = update_cartridge_volume(cartridges, cartridge_id,
                        consumed_volume(cartridge[1].current_volume_ml, volume_ml))
                /\ usage' = record_usage(usage, today, user_id,
                                         cartridge[1].material_code, taken)
                /\ log' = Logged(log, today, user_id, cartridge[1].material_code, taken)
        /\ UNCHANGED <<jobs, today, pc, frame, notification_vars, maintenance_vars, access_vars>>

Consume(cartridge_id, volume_ml, user_id) ==
    LET cartridge == get_cartridge(cartridges, cartridge_id)
    IN  /\ last' = [Call("consume", user_id, cartridge_id, has_access(cartridge, user_id), <<>>)
                        EXCEPT !.volume_ml = volume_ml,
                               !.balance = IF cartridge = None THEN 0
                                           ELSE cartridge[1].current_volume_ml]
        /\ IF ~has_access(cartridge, user_id)
           THEN UNCHANGED <<cartridges, usage, log>>
           ELSE /\ cartridges' = update_cartridge_volume(cartridges, cartridge_id,
                        consumed_volume(cartridge[1].current_volume_ml, volume_ml))
                /\ usage' = record_usage(usage, today, user_id,
                                         cartridge[1].material_code, volume_ml)
                /\ log' = Logged(log, today, user_id, cartridge[1].material_code, volume_ml)
        /\ UNCHANGED <<jobs, today, pc, frame, notification_vars, maintenance_vars, access_vars>>

NextDay ==
    /\ today < MaxDay
    /\ today' = today + 1
    /\ last' = NoCall
    /\ UNCHANGED <<cartridges, jobs, usage, log, pc, frame, notification_vars, maintenance_vars, access_vars>>

----------------------------------------------------------------------------
(* The sequential system: one caller at a time, two cartridges, two tenants *)

InitialVolumes == {1000}
RegisteredVolumes == {None, Some(45)}
ConsumedVolumes == {-50, 0, 100}

Next ==
    \/ \E id \in CartridgeIds, u \in Tenants,
          i \in InitialVolumes, c \in RegisteredVolumes : Register(id, "FLGPGR05", u, i, c)
    \/ \E id \in CartridgeIds, u \in Tenants : Predict(id, u)
    \/ \E id \in CartridgeIds, v \in ConsumedVolumes, u \in Tenants :
          LedgerOpen(MaxPrints) /\ Consume(id, v, u)

Spec == Init /\ [][Next]_vars

----------------------------------------------------------------------------
(* The ledger over several days: record_usage called directly and by consume_resin *)

RecordedVolumes == {45, 100}

NextLedger ==
    \/ \E u \in Tenants : Register("cart_001", "FLGPGR05", u, 1000, Some(45))
    \/ \E u \in Tenants : LedgerOpen(MaxRecords) /\ Consume("cart_001", 100, u)
    \/ \E u \in Tenants, m \in Materials, v \in RecordedVolumes :
          LedgerOpen(MaxRecords) /\ RecordUsage(u, m, v)
    \/ NextDay

SpecLedger == Init /\ [][NextLedger]_vars

----------------------------------------------------------------------------
(* Concurrent callers.  Every method of ResinDatabase opens its own connection *)
(* and commits on its own, and record_usage's SELECT takes no lock that lasts  *)
(* until its UPDATE or INSERT, so a step is one statement of one caller.       *)

\* the calls begun: those that finished record_usage and those under way
CallsBegun == LogPrints(log, Keys) + Cardinality({p \in Callers : pc[p] # "idle"})

\* record_usage() begins: today is taken and the SELECT runs
CallRecordUsage(p, user_id, material_code, volume_ml) ==
    /\ pc[p] = "idle"
    /\ frame' = [frame EXCEPT ![p] =
            [NoFrame EXCEPT !.user_id = user_id,
                            !.material_code = material_code,
                            !.volume_ml = volume_ml,
                            !.day = today,
                            !.existing = record_usage_select(usage, today, user_id,
                                                             material_code)]]
    /\ pc' = [pc EXCEPT ![p] = "write"]
    /\ UNCHANGED <<cartridges, jobs, usage, today, last, log, notification_vars, maintenance_vars, access_vars>>

\* consume_resin() begins: get_cartridge and the check of the owner
CallConsume(p, cartridge_id, volume_ml, user_id) ==
    LET cartridge == get_cartridge(cartridges, cartridge_id)
    IN  /\ pc[p] = "idle"
        /\ IF ~has_access(cartridge, user_id)
           THEN UNCHANGED <<pc, frame>>
           ELSE /\ frame' = [frame EXCEPT ![p] =
                        [NoFrame EXCEPT !.cartridge_id = cartridge_id,
                                        !.user_id = user_id,
                                        !.volume_ml = volume_ml,
                                        !.cartridge = cartridge]]
                /\ pc' = [pc EXCEPT ![p] = "update"]
        /\ last' = [Call("consume", user_id, cartridge_id, has_access(cartridge, user_id), <<>>)
                        EXCEPT !.volume_ml = volume_ml,
                               !.balance = IF cartridge = None THEN 0
                                           ELSE cartridge[1].current_volume_ml]
        /\ UNCHANGED <<cartridges, jobs, usage, today, log, notification_vars, maintenance_vars, access_vars>>

\* consume_resin(): update_cartridge_volume with the balance computed from the row read
UpdateVolume(p) ==
    /\ pc[p] = "update"
    /\ cartridges' = update_cartridge_volume(cartridges, frame[p].cartridge_id,
            consumed_volume(frame[p].cartridge[1].current_volume_ml, frame[p].volume_ml))
    /\ pc' = [pc EXCEPT ![p] = "select"]
    /\ UNCHANGED <<jobs, usage, today, last, log, frame, notification_vars, maintenance_vars, access_vars>>

\* consume_resin() calls record_usage: today is taken and the SELECT runs
SelectUsage(p) ==
    /\ pc[p] = "select"
    /\ frame' = [frame EXCEPT ![p] =
            [@ EXCEPT !.material_code = frame[p].cartridge[1].material_code,
                      !.day = today,
                      !.existing = record_usage_select(usage, today, frame[p].user_id,
                                        frame[p].cartridge[1].material_code)]]
    /\ pc' = [pc EXCEPT ![p] = "write"]
    /\ UNCHANGED <<cartridges, jobs, usage, today, last, log, notification_vars, maintenance_vars, access_vars>>

\* record_usage(): the UPDATE or INSERT and the commit; the call returns
WriteUsage(p) ==
    /\ pc[p] = "write"
    /\ usage' = record_usage_write(usage, frame[p].existing, frame[p].day, frame[p].user_id,
                                   frame[p].material_code, frame[p].volume_ml)
    /\ log' = Logged(log, frame[p].day, frame[p].user_id, frame[p].material_code,
                     frame[p].volume_ml)
    /\ pc' = [pc EXCEPT ![p] = "idle"]
    /\ frame' = [frame EXCEPT ![p] = NoFrame]
    /\ UNCHANGED <<cartridges, jobs, today, last, notification_vars, maintenance_vars, access_vars>>

NextConc ==
    \/ \E u \in Tenants : Register("cart_001", "FLGPGR05", u, 1000, None)
    \/ \E p \in Callers, v \in RecordedVolumes :
          CallsBegun < MaxCalls /\ CallRecordUsage(p, 1, "FLGPGR05", v)
    \/ \E p \in Callers, u \in Tenants :
          CallsBegun < MaxCalls /\ CallConsume(p, "cart_001", 100, u)
    \/ \E p \in Callers : UpdateVolume(p)
    \/ \E p \in Callers : SelectUsage(p)
    \/ \E p \in Callers : WriteUsage(p)

SpecConc == Init /\ [][NextConc]_vars

----------------------------------------------------------------------------
(* Concurrent callers whose statements may raise.  consume_resin and           *)
(* record_usage catch nothing and no transaction spans two statements, so a    *)
(* statement that raises sqlite3.Error (the database stays locked by another   *)
(* connection past the timeout, the disk is full) ends the call there, with    *)
(* what was committed before left in place.                                    *)

\* the statement the caller is about to run raises and the call ends
Raise(p) ==
    /\ pc[p] \in {"update", "select", "write"}
    /\ pc' = [pc EXCEPT ![p] = "idle"]
    /\ frame' = [frame EXCEPT ![p] = NoFrame]
    /\ last' = [Call("raised", frame[p].user_id, frame[p].cartridge_id, FALSE, <<>>)
                    EXCEPT !.volume_ml = frame[p].volume_ml]
    /\ UNCHANGED <<cartridges, jobs, usage, today, log, notification_vars, maintenance_vars, access_vars>>

NextRaise ==
    \/ \E u \in Tenants : Register("cart_001", "FLGPGR05", u, 1000, None)
    \/ \E p \in Callers, u \in Tenants :
          CallsBegun < MaxCalls /\ CallConsume(p, "cart_001", 100, u)
    \/ \E p \in Callers : UpdateVolume(p)
    \/ \E p \in Callers : SelectUsage(p)
    \/ \E p \in Callers : WriteUsage(p)
    \/ \E p \in Callers : Raise(p)

SpecRaise == Init /\ [][NextRaise]_vars

----------------------------------------------------------------------------
(* Forecasts of one cartridge over the range of its level *)

\* ResinDatabase.update_cartridge_volume called by a client of the store
UpdateCartridgeVolume(cartridge_id, new_volume_ml) ==
    /\ cartridges' = update_cartridge_volume(cartridges, cartridge_id, new_volume_ml)
    /\ last' = [Call("update_cartridge_volume", 0, cartridge_id, TRUE, <<>>)
                    EXCEPT !.volume_ml = new_volume_ml]
    /\ UNCHANGED <<jobs, usage, today, log, pc, frame, notification_vars, maintenance_vars, access_vars>>

JobIds == {"job_1"}

\* the print jobs a caller adds
NewJobs(ids, materials, volumes, times) ==
    [id : ids, material_code : materials, estimated_resin_ml : volumes,
     status : {"queued", "completed"}, user_id : Tenants, created_at : times]

\* levels below, at and above 5, 10, 20 and 30 percent of 1000 ml
Levels == {0, 49, 50, 51, 99, 100, 101, 199, 200, 201, 299, 300, 301, 1000}

NextForecast ==
    \/ \E u \in Tenants, i \in {0, 1000}, c \in {None, Some(100)} :
          Register("cart_001", "FLGPGR05", u, i, c)
    \/ \E v \in Levels : UpdateCartridgeVolume("cart_001", v)
    \/ \E u \in Tenants : Predict("cart_001", u)
    \/ \E job \in NewJobs(JobIds, {"FLGPGR05"}, {100}, {datetime(9, None)}) : AddPrintJob(job)

SpecForecast == Init /\ [][NextForecast]_vars

----------------------------------------------------------------------------
(* The forecasts of all cartridges of a user *)

FleetIds == {"cart_001", "cart_002", "cart_003"}

\* 5, 15, 25 and 50 percent of 1000 ml
FleetLevels == {Some(50), Some(150), Some(250), Some(500)}

NextFleet ==
    \/ \E id \in FleetIds, u \in Tenants, c \in FleetLevels :
          Register(id, "FLGPGR05", u, 1000, c)
    \/ \E u \in Tenants : GetAllPredictions(u)

SpecFleet == Init /\ [][NextFleet]_vars

----------------------------------------------------------------------------
(* One cartridge with its ledger and its queue of jobs *)

\* the current volumes a cartridge is registered with: none given, 0 and 45 ml
PredictedVolumes == {None, Some(0), Some(45)}

NextPredict ==
    \/ \E u \in Tenants, c \in PredictedVolumes :
          Register("cart_001", "FLGPGR05", u, 1000, c)
    \/ \E v \in ConsumedVolumes, u \in Tenants :
          LedgerOpen(MaxPrints) /\ Consume("cart_001", v, u)
    \/ \E job \in NewJobs(JobIds, {"FLGPGR05"}, {100}, {datetime(9, None)}) : AddPrintJob(job)
    \/ \E u \in Tenants : Predict("cart_001", u)

SpecPredict == Init /\ [][NextPredict]_vars

----------------------------------------------------------------------------
(* The store used directly: rows of any status are upserted, listed and forecast *)

\* ResinDatabase.add_cartridge called by a client of the store
AddCartridge(cartridge) ==
    /\ cartridges' = add_cartridge(cartridges, cartridge)
    /\ last' = Call("add_cartridge", cartridge.user_id, cartridge.id, TRUE, <<>>)
    /\ UNCHANGED <<jobs, usage, today, log, pc, frame, notification_vars, maintenance_vars, access_vars>>

\* ResinDatabase.get_user_cartridges called by a client of the store
GetUserCartridges(user_id) ==
    /\ last' = Call("get_user_cartridges", user_id, "", TRUE,
                    get_user_cartridges(cartridges, user_id))
    /\ UNCHANGED <<cartridges, jobs, usage, today, log, pc, frame, notification_vars, maintenance_vars, access_vars>>

\* the rows a client upserts: full and nearly empty, in use and removed
UpsertedCartridges ==
    [id : CartridgeIds, material_code : {"FLGPGR05"}, initial_volume_ml : {1000},
     current_volume_ml : {45, 1000}, printer_id : {None}, user_id : Tenants,
     status : {"active", "removed"}]

NextStore ==
    \/ \E c \in UpsertedCartridges : AddCartridge(c)
    \/ \E u \in Tenants : GetUserCartridges(u)
    \/ \E u \in Tenants : GetAllPredictions(u)
    \/ \E id \in CartridgeIds, u \in Tenants : Predict(id, u)
    \/ \E id \in CartridgeIds : UpdateCartridgeVolume(id, 45)

SpecStore == Init /\ [][NextStore]_vars

----------------------------------------------------------------------------
(* The notification service: subscriptions and the polls of the subscribers. *)
(* User 1 has logged in to the Web API, user 2 has not.                       *)

Subscribe(user_id, printer_serial) ==
    /\ subscriptions' = subscribe(subscriptions, user_id, printer_serial)
    /\ UNCHANGED <<tracked_prints, polled, maintenance_vars, access_vars>>
    /\ UNCHANGED <<cartridges, jobs, usage, today, last, log, pc, frame>>

Unsubscribe(user_id) ==
    /\ subscriptions' = unsubscribe(subscriptions, user_id)
    /\ UNCHANGED <<tracked_prints, polled, maintenance_vars, access_vars>>
    /\ UNCHANGED <<cartridges, jobs, usage, today, last, log, pc, frame>>

\* _poll_all() reaches user_id, one of the subscribers, and runs _check_user
CheckUser(user_id, client, reports) ==
    LET r == check_user(tracked_prints, user_id, client, reports)
    IN  /\ user_id \in {sub.user_id : sub \in get_subscribers(subscriptions)}
        /\ tracked_prints' = r.tracked
        /\ polled' = [user_id |-> user_id, client |-> client,
                      reports |-> IF r.fetched THEN reports ELSE <<>>,
                      fetched |-> r.fetched, sent |-> r.sent, turn |-> 1 - polled.turn]
        /\ UNCHANGED <<subscriptions, maintenance_vars, access_vars>>
        /\ UNCHANGED <<cartridges, jobs, usage, today, last, log, pc, frame>>

\* the most prints one poll lists
MaxReports == 2

\* what list_prints reports of a print: printing, finished (in lower case),
\* failed, and without a status
ReportedPrints ==
    [guid : {"guid-1"}, printer : {"ABC"}, status : {"PRINTING", "finished", "ERROR", ""}]

\* the lists of at most MaxReports prints
Reports == UNION {[1..n -> ReportedPrints] : n \in 0..MaxReports}

NextNotify ==
    \/ \E u \in Tenants : Subscribe(u, "*")
    \/ \E u \in Tenants : Unsubscribe(u)
    \/ \E client \in {"none", "unauthenticated"} : CheckUser(2, client, <<>>)
    \/ \E reports \in Reports : CheckUser(1, "authenticated", reports)

SpecNotify == Init /\ [][NextNotify]_vars

----------------------------------------------------------------------------
(* The maintenance tracker: tasks marked as done and asked for, over the weeks *)

MarkDone(user_id, printer_serial, task_id) ==
    LET r == mark_done(maintenance_log, today, user_id, printer_serial, task_id)
    IN  /\ maintenance_log' = r.log
        /\ asked' = [op |-> "mark_done", user_id |-> user_id,
                     printer_serial |-> printer_serial, task_id |-> task_id,
                     ok |-> r.ok, tasks |-> <<>>]
        /\ UNCHANGED <<cartridges, jobs, usage, today, last, log, pc, frame>>
        /\ UNCHANGED <<notification_vars, access_vars>>

GetDueTasks(user_id, printer_serial) ==
    /\ asked' = [op |-> "get_due_tasks", user_id |-> user_id,
                 printer_serial |-> printer_serial, task_id |-> "", ok |-> TRUE,
                 tasks |-> get_due_tasks(maintenance_log, today, user_id, printer_serial)]
    /\ UNCHANGED <<cartridges, jobs, usage, today, last, log, pc, frame>>
    /\ UNCHANGED <<maintenance_log, notification_vars, access_vars>>

\* days pass between two calls
Later(days) ==
    /\ today' = today + days
    /\ last' = NoCall
    /\ UNCHANGED <<cartridges, jobs, usage, log, pc, frame>>
    /\ UNCHANGED <<notification_vars, maintenance_vars, access_vars>>

\* the most rows of the maintenance log
MaxMarks == 2
\* the most times eight days pass
MaxWeeks == 1

Printers == {"ABC", "DEF"}

\* the task ids callers give: two tasks and an id that is no task
MarkedTasks == {"optical_window_clean", "build_platform_clean", "nonexistent_task"}

NextMaintenance ==
    \/ \E u \in Tenants, printer \in Printers, task \in MarkedTasks :
          Len(maintenance_log) < MaxMarks /\ MarkDone(u, printer, task)
    \/ \E u \in Tenants, printer \in Printers : GetDueTasks(u, printer)
    \/ today + 8 <= 8 * MaxWeeks /\ Later(8)

SpecMaintenance == Init /\ [][NextMaintenance]_vars

----------------------------------------------------------------------------
(* The average volume of a print, asked for while the ledger is written and a *)
(* month later, when its rows leave the window of AVERAGE_WINDOW days         *)

\* ResinProphet._get_average_print_volume called on its own
GetAveragePrintVolume(user_id, material_code) ==
    /\ last' = Call("get_average_print_volume", user_id, material_code, TRUE,
                    get_average_print_volume(usage, today, user_id, material_code))
    /\ UNCHANGED <<cartridges, jobs, usage, today, log, pc, frame>>
    /\ UNCHANGED <<notification_vars, maintenance_vars, access_vars>>

\* the material codes asked for: the five of the table of defaults and one more
AskedMaterials ==
    {"FLGPGR05", "FLGPBK05", "FLGPCL05", "FLTO2K02", "FLDUCL21", "FLRGWH01"}

\* user 1 prints, both users ask
NextEstimate ==
    \/ \E m \in Materials, v \in RecordedVolumes :
          (today \in Days /\ LedgerOpen(MaxRecords)) /\ RecordUsage(1, m, v)
    \/ \E u \in Tenants, m \in AskedMaterials : GetAveragePrintVolume(u, m)
    \/ NextDay
    \/ \E days \in {AVERAGE_WINDOW - 1, AVERAGE_WINDOW} : today \in Days /\ Later(days)

SpecEstimate == Init /\ [][NextEstimate]_vars

----------------------------------------------------------------------------
(* The days remaining, asked for over ledgers of very small volumes.  Here a   *)
(* volume is a whole number of the least positive float, 5e-324 ml, which is   *)
(* what REAL columns and Python floats hold exactly; record_usage adds such    *)
(* volumes exactly, and only the division by the number of days rounds.        *)

\* ResinProphet._calculate_days_remaining called on its own
CalculateDaysRemaining(user_id, material_code, current_volume) ==
    LET r == calculate_days_remaining_rounded(usage, today, user_id, material_code,
                                              current_volume)
    IN  /\ last' = [Call("calculate_days_remaining", user_id, material_code, ~r.raised,
                         r.days_remaining)
                        EXCEPT !.volume_ml = current_volume]
        /\ UNCHANGED <<cartridges, jobs, usage, today, log, pc, frame>>
        /\ UNCHANGED <<notification_vars, maintenance_vars, access_vars>>

\* the volumes recorded and the current volumes asked about, in units of 5e-324 ml
BurnVolumes == {-1, 0, 1, 2}
CurrentVolumes == {0, 3}

\* user 1 prints, both users ask
NextBurn ==
    \/ \E v \in BurnVolumes :
          (today \in Days /\ LedgerOpen(MaxRecords)) /\ RecordUsage(1, "FLGPGR05", v)
    \/ \E u \in Tenants, v \in CurrentVolumes : CalculateDaysRemaining(u, "FLGPGR05", v)
    \/ NextDay
    \/ \E days \in {BURN_WINDOW - 1, BURN_WINDOW} : today \in Days /\ Later(days)

SpecBurn == Init /\ [][NextBurn]_vars

----------------------------------------------------------------------------
(* The queue of print jobs behind the forecast of one cartridge: jobs of every *)
(* status, of two materials and of both tenants                                *)

\* the print jobs callers add: job_1 of 100 ml and job_2 of 30 ml
QueuedJobs ==
    {job \in [id : {"job_1", "job_2"}, material_code : Materials,
              estimated_resin_ml : {30, 100},
              status : {"queued", "printing", "completed", "failed", "cancelled"},
              user_id : Tenants, created_at : {datetime(9, None)}] :
        job.estimated_resin_ml = IF job.id = "job_1" THEN 100 ELSE 30}

\* the material codes a cartridge is registered with: one of the table and the
\* empty string
CartridgeMaterials == {"FLGPGR05", ""}

NextQueue ==
    \/ \E u \in Tenants, m \in CartridgeMaterials : Register("cart_001", m, u, 1000, None)
    \/ \E job \in QueuedJobs : AddPrintJob(job)
    \/ \E u \in Tenants : Predict("cart_001", u)

SpecQueue == Init /\ [][NextQueue]_vars

----------------------------------------------------------------------------
(* The queue of print jobs listed: jobs of one tenant created at several hours *)
(* in several time zones, added and added again in any order                   *)

\* ResinDatabase.get_queued_jobs called by a client of the store
GetQueuedJobs(user_id, material_code) ==
    /\ last' = Call("get_queued_jobs", user_id, material_code, TRUE,
                    get_queued_jobs(jobs, user_id, material_code))
    /\ UNCHANGED <<cartridges, jobs, usage, today, log, pc, frame>>
    /\ UNCHANGED <<notification_vars, maintenance_vars, access_vars>>

\* the times of creation: 9 and 10 o'clock, naive, in UTC and in UTC+2
CreationTimes == {datetime(h, o) : h \in {9, 10}, o \in {None, Some(0), Some(2)}}

ListedJobs ==
    [id : {"job_1", "job_2"}, material_code : Materials, estimated_resin_ml : {100},
     status : {"queued", "completed"}, user_id : {1}, created_at : CreationTimes]

NextJobs ==
    \/ \E job \in ListedJobs : AddPrintJob(job)
    \/ \E u \in Tenants, m \in {"", "FLGPGR05"} : GetQueuedJobs(u, m)

SpecJobs == Init /\ [][NextJobs]_vars

----------------------------------------------------------------------------
(* Forecasts of cartridges that sit in a printer or in none, beside a queue of *)
(* jobs and a ledger                                                           *)

\* the rows a client upserts: nearly empty, in a printer or not, in use and removed
AssignedCartridges ==
    [id : CartridgeIds, material_code : {"FLGPGR05"}, initial_volume_ml : {1000},
     current_volume_ml : {45}, printer_id : {None, Some("ABC")}, user_id : Tenants,
     status : {"active", "removed"}]

NextFrame ==
    \/ \E c \in AssignedCartridges : AddCartridge(c)
    \/ \E job \in NewJobs(JobIds, {"FLGPGR05"}, {100}, {datetime(9, None)}) : AddPrintJob(job)
    \/ LedgerOpen(MaxPrints) /\ RecordUsage(1, "FLGPGR05", 45)
    \/ \E id \in CartridgeIds, u \in Tenants : Predict(id, u)

SpecFrame == Init /\ [][NextFrame]_vars

----------------------------------------------------------------------------
(* One cartridge drawn down across the thresholds of its status, by prints and *)
(* by a client that sets its volume                                            *)

\* the volumes of the prints: 1000 ml less 850 ml is 15 percent
DrawnVolumes == {100, 850}

\* the volumes a client sets: 4.5, 15 and 100 percent
SetVolumes == {45, 150, 1000}

NextStatus ==
    \/ \E u \in Tenants : Register("cart_001", "FLGPGR05", u, 1000, None)
    \/ \E v \in DrawnVolumes, u \in Tenants :
          LedgerOpen(MaxPrints) /\ Consume("cart_001", v, u)
    \/ \E v \in SetVolumes : UpdateCartridgeVolume("cart_001", v)
    \/ \E u \in Tenants : Predict("cart_001", u)

SpecStatus == Init /\ [][NextStatus]_vars

----------------------------------------------------------------------------
(* predict() beside consume_resin().  predict() holds no connection between    *)
(* its calls of the store, so a step is one of these calls.                    *)

\* predict() begins: get_cartridge and the check of the owner
CallPredict(p, cartridge_id, user_id) ==
    LET cartridge == get_cartridge(cartridges, cartridge_id)
    IN  /\ pc[p] = "idle"
        /\ IF ~has_access(cartridge, user_id)
           THEN /\ last' = Call("predict", user_id, cartridge_id, FALSE, None)
                /\ UNCHANGED <<pc, frame>>
           ELSE /\ frame' = [frame EXCEPT ![p] =
                        [NoFrame EXCEPT !.cartridge_id = cartridge_id,
                                        !.user_id = user_id,
                                        !.material_code = cartridge[1].material_code,
                                        !.cartridge = cartridge]]
                /\ pc' = [pc EXCEPT ![p] = "jobs"]
                /\ UNCHANGED last
        /\ UNCHANGED <<cartridges, jobs, usage, today, log, notification_vars, maintenance_vars, access_vars>>

\* predict(): get_queued_jobs
ReadJobs(p) ==
    /\ pc[p] = "jobs"
    /\ frame' = [frame EXCEPT ![p].queued_jobs =
            get_queued_jobs(jobs, frame[p].user_id, frame[p].material_code)]
    /\ pc' = [pc EXCEPT ![p] = "average"]
    /\ UNCHANGED <<cartridges, jobs, usage, today, last, log, notification_vars, maintenance_vars, access_vars>>

\* predict(): _get_average_print_volume
ReadAverage(p) ==
    /\ pc[p] = "average"
    /\ frame' = [frame EXCEPT ![p].avg =
            get_average_print_volume(usage, today, frame[p].user_id, frame[p].material_code)]
    /\ pc' = [pc EXCEPT ![p] = "days"]
    /\ UNCHANGED <<cartridges, jobs, usage, today, last, log, notification_vars, maintenance_vars, access_vars>>

\* predict(): _calculate_days_remaining and the depletion date
ReadDays(p) ==
    /\ pc[p] = "days"
    /\ frame' = [frame EXCEPT ![p].days_remaining =
                        calculate_days_remaining(usage, today, frame[p].user_id,
                            frame[p].material_code, frame[p].cartridge[1].current_volume_ml),
                              ![p].day = today]
    /\ pc' = [pc EXCEPT ![p] = "store"]
    /\ UNCHANGED <<cartridges, jobs, usage, today, last, log, notification_vars, maintenance_vars, access_vars>>

\* predict(): the status is set on the cartridge that was read, add_cartridge
\* writes it back and the prediction is returned
StorePrediction(p) ==
    /\ pc[p] = "store"
    /\ cartridges' = add_cartridge(cartridges, predicted_cartridge(frame[p].cartridge[1]))
    /\ last' = Call("predict", frame[p].user_id, frame[p].cartridge_id, TRUE,
                    Some(resin_prediction(frame[p].cartridge[1], frame[p].queued_jobs,
                                          frame[p].avg, frame[p].days_remaining,
                                          frame[p].day)))
    /\ pc' = [pc EXCEPT ![p] = "idle"]
    /\ frame' = [frame EXCEPT ![p] = NoFrame]
    /\ UNCHANGED <<jobs, usage, today, log, notification_vars, maintenance_vars, access_vars>>

\* the cartridge is registered once; one caller forecasts while the other prints
NextRace ==
    \/ cartridges = <<>> /\ Register("cart_001", "FLGPGR05", 1, 1000, None)
    \/ \E p \in Callers : CallsBegun < MaxCalls /\ CallConsume(p, "cart_001", 100, 1)
    \/ \E p \in Callers : UpdateVolume(p)
    \/ \E p \in Callers : SelectUsage(p)
    \/ \E p \in Callers : WriteUsage(p)
    \/ \E p \in Callers, u \in Tenants : CallPredict(p, "cart_001", u)
    \/ \E p \in Callers : ReadJobs(p)
    \/ \E p \in Callers : ReadAverage(p)
    \/ \E p \in Callers : ReadDays(p)
    \/ \E p \in Callers : StorePrediction(p)

SpecRace == Init /\ [][NextRace]_vars

----------------------------------------------------------------------------
(* Two callers that print from one cartridge at a time *)

\* the volumes of the prints
RacedVolumes == {100, 950}

NextDraw ==
    \/ cartridges = <<>> /\ Register("cart_001", "FLGPGR05", 1, 1000, None)
    \/ \E p \in Callers, v \in RacedVolumes :
          CallsBegun < MaxCalls /\ CallConsume(p, "cart_001", v, 1)
    \/ \E p \in Callers : UpdateVolume(p)
    \/ \E p \in Callers : SelectUsage(p)
    \/ \E p \in Callers : WriteUsage(p)

SpecDraw == Init /\ [][NextDraw]_vars

----------------------------------------------------------------------------
(* Prints from two cartridges of two materials by two tenants on one day, one *)
(* call at a time                                                              *)

\* the volumes of the prints
PrintedVolumes == {45, 100}

\* cart_001 holds FLGPGR05 and cart_002 holds FLTO2K02
material_of(cartridge_id) == IF cartridge_id = "cart_001" THEN "FLGPGR05" ELSE "FLTO2K02"

NextConserve ==
    \/ \E id \in CartridgeIds, u \in Tenants : Register(id, material_of(id), u, 1000, None)
    \/ \E id \in CartridgeIds, v \in PrintedVolumes, u \in Tenants :
          LedgerOpen(MaxRecords) /\ Consume(id, v, u)

SpecConserve == Init /\ [][NextConserve]_vars

----------------------------------------------------------------------------
(* The access list: users ask for access, the admin and others approve and     *)
(* reject                                                                      *)

IsAllowed(user_id) ==
    LET r == is_allowed(access_file, user_id)
    IN  /\ access_file' = r.file
        /\ answer' = [op |-> "is_allowed", user_id |-> user_id, admin_id |-> "", ok |-> r.ok]
        /\ UNCHANGED <<cartridges, jobs, usage, today, last, log, pc, frame>>
        /\ UNCHANGED <<notification_vars, maintenance_vars>>

RequestAccess(user_id) ==
    LET r == request_access(access_file, user_id)
    IN  /\ access_file' = r.file
        /\ answer' = [op |-> "request_access", user_id |-> user_id, admin_id |-> "",
                      ok |-> r.ok]
        /\ UNCHANGED <<cartridges, jobs, usage, today, last, log, pc, frame>>
        /\ UNCHANGED <<notification_vars, maintenance_vars>>

ApproveUser(user_id, admin_id) ==
    LET r == approve_user(access_file, user_id, admin_id)
    IN  /\ access_file' = r.file
        /\ answer' = [op |-> "approve_user", user_id |-> user_id, admin_id |-> admin_id,
                      ok |-> r.ok]
        /\ UNCHANGED <<cartridges, jobs, usage, today, last, log, pc, frame>>
        /\ UNCHANGED <<notification_vars, maintenance_vars>>

RejectUser(user_id, admin_id) ==
    LET r == reject_user(access_file, user_id, admin_id)
    IN  /\ access_file' = r.file
        /\ answer' = [op |-> "reject_user", user_id |-> user_id, admin_id |-> admin_id,
                      ok |-> r.ok]
        /\ UNCHANGED <<cartridges, jobs, usage, today, last, log, pc, frame>>
        /\ UNCHANGED <<notification_vars, maintenance_vars>>

\* the admin and two other users
AccessUsers == {"6217674573", "1001", "1002"}

NextAccess ==
    \/ \E u \in AccessUsers : IsAllowed(u)
    \/ \E u \in AccessUsers : RequestAccess(u)
    \/ \E u \in AccessUsers, a \in AccessUsers : ApproveUser(u, a)
    \/ \E u \in AccessUsers, a \in AccessUsers : RejectUser(u, a)

SpecAccess == Init /\ [][NextAccess]_vars

----------------------------------------------------------------------------
(* Properties of the sequential system *)

\* the stored cartridges of an id (at most one: id is the primary key)
Stored(cartridge_id) ==
    {cartridges[i] : i \in {j \in 1..Len(cartridges) : cartridges[j].id = cartridge_id}}

\* C1: no negative balance. Whatever volumes consume() was asked for, every
\* stored cartridge holds a current volume of at least 0.
C1_NoNegativeBalance ==
    \A i \in 1..Len(cartridges) : cartridges[i].current_volume_ml >= 0

\* a consume() asked for more than the cartridge held, and the cartridge holds 0
C1_Witness ==
    /\ last.op = "consume" /\ last.ok
    /\ last.volume_ml > last.balance
    /\ \E c \in Stored(last.id) : c.current_volume_ml = 0

\* C5: tenant isolation of predict. predict(id, user) returns a prediction (for
\* that cartridge) exactly when a cartridge of that id is stored and user owns
\* it; for a foreign cartridge it returns None, as for a missing one.
C5_PredictTenantIsolation ==
    last.op = "predict" =>
        /\ (last.preds # None) <=> (\E c \in Stored(last.id) : c.user_id = last.user_id)
        /\ last.preds # None => last.preds[1].cartridge_id = last.id

\* predict() was called on a stored cartridge of another tenant and returned None
C5_Witness ==
    /\ last.op = "predict" /\ last.preds = None
    /\ \E c \in Stored(last.id) : c.user_id # last.user_id

\* C6: tenant non-interference. A call made with one tenant's id leaves every
\* cartridge, print job and usage row of every other tenant stored as it was.
C6_TenantNonInterference ==
    [][/\ \A i \in 1..Len(cartridges) :
            cartridges[i].user_id # last'.user_id
                => \E j \in 1..Len(cartridges') : cartridges'[j] = cartridges[i]
       /\ \A i \in 1..Len(jobs) :
            jobs[i].user_id # last'.user_id
                => \E j \in 1..Len(jobs') : jobs'[j] = jobs[i]
       /\ \A i \in 1..Len(usage) :
            usage[i].user_id # last'.user_id
                => \E j \in 1..Len(usage') : usage'[j] = usage[i]]_vars

\* C7: consume() on a cartridge that is missing or owned by another tenant
\* returns False and leaves the cartridges and the usage ledger as they were.
C7_ConsumeDenied ==
    [][(/\ last'.op = "consume"
        /\ ~(\E c \in Stored(last'.id) : c.user_id = last'.user_id))
       => (/\ last'.ok = FALSE
           /\ cartridges' = cartridges
           /\ usage' = usage)]_vars

\* consume() was refused on another tenant's cartridge while the ledger has rows
C7_Witness ==
    /\ last.op = "consume" /\ ~last.ok
    /\ \E c \in Stored(last.id) : c.user_id # last.user_id
    /\ usage # <<>>

----------------------------------------------------------------------------
(* Properties of the forecasts *)

\* C8: alert classification. The alert tier of a prediction is decided by its
\* percent remaining n/d alone: critical below 10, warning from 10 to below 20,
\* info from 20 to below 30, none from 30 on.
C8_AlertClassification ==
    (last.op = "predict" /\ last.preds # None) =>
        LET p == last.preds[1]
            n == p.percent_remaining[1]
            d == p.percent_remaining[2]
        IN  /\ \E c \in Stored(last.id) : p.percent_remaining = percent_remaining(c)
            /\ (n < 10 * d) => p.alert_level = "critical"
            /\ (10 * d <= n /\ n < 20 * d) => p.alert_level = "warning"
            /\ (20 * d <= n /\ n < 30 * d) => p.alert_level = "info"
            /\ (30 * d <= n) => p.alert_level = "none"

\* a prediction at exactly 20 percent, with tier info
C8_Witness ==
    /\ last.op = "predict" /\ last.preds # None
    /\ last.preds[1].percent_remaining[1] = 20 * last.preds[1].percent_remaining[2]
    /\ last.preds[1].alert_level = "info"

\* C9: status recomputation. After a successful predict() the status of the
\* prediction is the one of its percent remaining n/d (empty below 5, critical
\* from 5 to below 10, low from 10 to below 20, active from 20 on), whatever
\* status was stored before, and the stored cartridge carries the same status.
C9_StatusRecomputed ==
    (last.op = "predict" /\ last.preds # None) =>
        LET p == last.preds[1]
            n == p.percent_remaining[1]
            d == p.percent_remaining[2]
        IN  /\ (n < 5 * d) => p.status = "empty"
            /\ (5 * d <= n /\ n < 10 * d) => p.status = "critical"
            /\ (10 * d <= n /\ n < 20 * d) => p.status = "low"
            /\ (20 * d <= n) => p.status = "active"
            /\ \A c \in Stored(last.id) : c.status = p.status

\* a prediction at exactly 10 percent, stored with status low
C9_Witness ==
    /\ last.op = "predict" /\ last.preds # None
    /\ last.preds[1].percent_remaining[1] = 10 * last.preds[1].percent_remaining[2]
    /\ \E c \in Stored(last.id) : c.status = "low"

\* the severity rank of an alert tier
Rank(alert_level) ==
    CASE alert_level = "critical" -> 0
      [] alert_level = "warning" -> 1
      [] alert_level = "info" -> 2
      [] alert_level = "none" -> 3

\* C10: get_all_predictions(user) returns one prediction for each cartridge that
\* get_user_cartridges listed, ordered by severity rank, predictions of equal
\* tier in the order in which their cartridges were listed.
C10_SortedStable ==
    [][last'.op = "get_all_predictions" =>
        LET listed == SelectSeq(cartridges,
                        LAMBDA r : r.user_id = last'.user_id /\ r.status # "removed")
            preds == last'.preds
            pos(id) == CHOOSE i \in 1..Len(listed) : listed[i].id = id
        IN  /\ Len(preds) = Len(listed)
            /\ \A i \in 1..Len(listed) :
                    \E j \in 1..Len(preds) : preds[j].cartridge_id = listed[i].id
            /\ \A i, j \in 1..Len(preds) :
                    i < j =>
                        /\ Rank(preds[i].alert_level) <= Rank(preds[j].alert_level)
                        /\ preds[i].alert_level = preds[j].alert_level
                            => pos(preds[i].cartridge_id) < pos(preds[j].cartridge_id)
      ]_vars

\* three predictions came back, the last two of one tier, the first one not
\* the first cartridge of the table
C10_Witness ==
    /\ last.op = "get_all_predictions"
    /\ Len(last.preds) = 3
    /\ last.preds[2].alert_level = last.preds[3].alert_level
    /\ last.preds[1].alert_level # last.preds[2].alert_level
    /\ cartridges[1].id # last.preds[1].cartridge_id

----------------------------------------------------------------------------
(* Properties of one cartridge with its ledger and its queue of jobs *)

\* C11: predict() is idempotent. In the state a successful predict() left, a
\* second predict() for the same cartridge and tenant returns the same
\* prediction (tier, status, percent, prints and days remaining, queue count
\* and volume) and leaves the table of cartridges exactly as it is.
C11_PredictIdempotent ==
    (last.op = "predict" /\ last.ok) =>
        LET again == predict(cartridges, jobs, usage, today, last.id, last.user_id)
        IN  /\ again.pred = last.preds
            /\ again.table = cartridges

\* a predict() that found usage and a queued job and stored a new status
C11_Witness ==
    /\ last.op = "predict" /\ last.ok
    /\ last.preds[1].status = "empty"
    /\ last.preds[1].estimated_days_remaining # None
    /\ last.preds[1].queued_jobs_count = 1

\* the volume and the prints the ledger hist holds for the key k
KeyVolume(hist, k) ==
    Sum([i \in 1..Len(hist) |->
            IF hist[i].date = k[1] /\ hist[i].user_id = k[2] /\ hist[i].material_code = k[3]
            THEN hist[i].volume_used_ml ELSE 0])

KeyPrints(hist, k) ==
    Sum([i \in 1..Len(hist) |->
            IF hist[i].date = k[1] /\ hist[i].user_id = k[2] /\ hist[i].material_code = k[3]
            THEN hist[i].print_count ELSE 0])

\* C13: effect of a successful consume(cartridge, v, tenant). The stored balance
\* becomes max(0, old balance - v); the ledger of (today, tenant, material of
\* the cartridge) grows by v itself, not by the volume taken from the
\* cartridge, and by one print; every other key of the ledger keeps its sums.
C13_ConsumeEffect ==
    [][(last'.op = "consume" /\ last'.ok) =>
        \A c \in Stored(last'.id) :
            LET key == <<today, last'.user_id, c.material_code>>
                new == IF c.current_volume_ml - last'.volume_ml >= 0
                       THEN c.current_volume_ml - last'.volume_ml ELSE 0
            IN  /\ \A i \in 1..Len(cartridges') :
                        cartridges'[i].id = last'.id => cartridges'[i].current_volume_ml = new
                /\ KeyVolume(usage', key) = KeyVolume(usage, key) + last'.volume_ml
                /\ KeyPrints(usage', key) = KeyPrints(usage, key) + 1
                /\ \A k \in Keys \ {key} :
                        /\ KeyVolume(usage', k) = KeyVolume(usage, k)
                        /\ KeyPrints(usage', k) = KeyPrints(usage, k)
      ]_vars

\* consume(100) on a cartridge that held 45 ml: balance 0, ledger row 100 ml, 1 print
C13_Witness ==
    /\ last.op = "consume" /\ last.ok
    /\ last.volume_ml = 100 /\ last.balance = 45
    /\ \E c \in Stored(last.id) :
            /\ c.current_volume_ml = 0
            /\ \E i \in 1..Len(usage) :
                    /\ usage[i].user_id = last.user_id
                    /\ usage[i].material_code = c.material_code
                    /\ usage[i].date = today
                    /\ usage[i].volume_used_ml = 100
                    /\ usage[i].print_count = 1

\* C14: consume() with a volume that is zero or negative, made by the owner of
\* the cartridge, returns True, leaves the stored balance of the cartridge as
\* it was and adds one print to the ledger of (today, tenant, material).
C14_NonPositiveConsume ==
    [][(/\ last'.op = "consume"
        /\ last'.volume_ml <= 0
        /\ \E c \in Stored(last'.id) : c.user_id = last'.user_id)
       => (/\ last'.ok
           /\ \A c \in Stored(last'.id) :
                /\ \A i \in 1..Len(cartridges') :
                        cartridges'[i].id = last'.id
                            => cartridges'[i].current_volume_ml = c.current_volume_ml
                /\ KeyPrints(usage', <<today, last'.user_id, c.material_code>>)
                        = KeyPrints(usage, <<today, last'.user_id, c.material_code>>) + 1)
      ]_vars

\* C15: the empty cartridge. A cartridge registered with initial volume 1000 ml
\* and current volume 0 ml is stored with current volume 0, and predict() on it
\* reports 0 percent, status empty, tier critical and 0 prints remaining.
C15_EmptyCartridge ==
    (last.op = "register" /\ last.volume_ml = 0) =>
        \A c \in Stored(last.id) :
            c.initial_volume_ml = 1000 =>
                LET p == predict(cartridges, jobs, usage, today, last.id, last.user_id).pred
                IN  /\ c.current_volume_ml = 0
                    /\ p # None
                    /\ p[1].percent_remaining[1] = 0
                    /\ p[1].status = "empty"
                    /\ p[1].alert_level = "critical"
                    /\ p[1].estimated_prints_remaining = 0

----------------------------------------------------------------------------
(* Properties of the store used directly *)

\* C12: soft delete. No call removes the row of a cartridge id from the table:
\* an id that get_cartridge finds is found after every call. A cartridge stored
\* with status removed is not among the rows get_user_cartridges returns and
\* has no prediction in what get_all_predictions returns.
C12_SoftDelete ==
    [][/\ \A id \in CartridgeIds :
            get_cartridge(cartridges, id) # None => get_cartridge(cartridges', id) # None
       /\ last'.op = "get_user_cartridges" =>
            \A i \in 1..Len(last'.preds) :
                /\ last'.preds[i].status # "removed"
                /\ last'.preds[i] \in Stored(last'.preds[i].id)
       /\ last'.op = "get_all_predictions" =>
            \A i \in 1..Len(last'.preds) :
                \A c \in Stored(last'.preds[i].cartridge_id) : c.status # "removed"
      ]_vars

\* get_all_predictions returned a prediction for one cartridge of the user
\* while the user's other cartridge is stored with status removed
C12_Witness ==
    /\ last.op = "get_all_predictions"
    /\ Len(last.preds) = 1
    /\ \E c \in Stored("cart_001") \cup Stored("cart_002") :
            /\ c.user_id = last.user_id
            /\ c.status = "removed"
            /\ c.id # last.preds[1].cartridge_id

----------------------------------------------------------------------------
(* Properties of the ledger *)

\* the rows of the ledger of one (day, user, material)
RowsOf(k) ==
    {i \in 1..Len(usage) :
        /\ usage[i].date = k[1]
        /\ usage[i].user_id = k[2]
        /\ usage[i].material_code = k[3]}

\* C3: ledger additivity. After n sequential record_usage calls for one (day,
\* user, material) with volumes v1..vn the ledger holds exactly one row of that
\* key, with volume v1+...+vn and print count n (and no row when n = 0).
C3_LedgerAdditivity ==
    \A k \in Keys :
        IF log[k].prints = 0 THEN RowsOf(k) = {}
        ELSE /\ Cardinality(RowsOf(k)) = 1
             /\ \A i \in RowsOf(k) :
                    /\ usage[i].volume_used_ml = log[k].volume_ml
                    /\ usage[i].print_count = log[k].prints

\* three calls with different volumes were recorded under one key
C3_Witness ==
    \E k \in Keys :
        /\ log[k].prints = 3
        /\ log[k].volume_ml = 45 + 100 + 45
        /\ \E i \in RowsOf(k) : usage[i].print_count = 3

----------------------------------------------------------------------------
(* Properties of the concurrent system *)

Quiescent == \A p \in Callers : pc[p] = "idle"

\* C2: no lost update in the ledger. When the concurrent record_usage and
\* consume_resin calls have all returned, the ledger's total volume of every
\* (day, user, material) is the sum of the volumes of the calls made for it and
\* its print count is their number.
C2_NoLostUpdate ==
    Quiescent =>
        \A k \in Keys :
            /\ Sum([i \in 1..Len(usage) |->
                    IF i \in RowsOf(k) THEN usage[i].volume_used_ml ELSE 0])
                = log[k].volume_ml
            /\ Sum([i \in 1..Len(usage) |->
                    IF i \in RowsOf(k) THEN usage[i].print_count ELSE 0])
                = log[k].prints

\* C4: ledger key uniqueness. In every state, also between the statements of
\* concurrent record_usage calls, the ledger holds at most one row per
\* (date, user, material).
C4_LedgerKeyUnique ==
    \A k \in Keys : Cardinality(RowsOf(k)) <= 1

----------------------------------------------------------------------------
(* Properties of the concurrent system whose statements may raise *)

\* C17: the two writes of consume() complete together. A consume_resin call
\* that has written the balance ends, by returning or by raising, only with its
\* entry made in the ledger: one more print under (day, user, material) with
\* the volume of the call added.
C17_WritesTogether ==
    [][\A p \in Callers :
        (/\ frame[p].cartridge # None
         /\ pc[p] \in {"select", "write"}
         /\ pc'[p] = "idle")
        => LET k == <<frame[p].day, frame[p].user_id, frame[p].material_code>>
           IN  /\ k \in Keys
               /\ log'[k].prints = log[k].prints + 1
               /\ log'[k].volume_ml = log[k].volume_ml + frame[p].volume_ml
      ]_vars

----------------------------------------------------------------------------
(* Properties of the notification service *)

\* C18: a poll of a subscriber with an authenticated client hands one message
\* to send_message for a listed print exactly when the print had a tracked
\* status (not the empty one) when it was listed, the status now reported (in
\* upper case) differs from it and is FINISHED, ERROR or ABORTED; the messages
\* are in the order of the list. After the poll the tracked status of every
\* listed print is the one reported last, so a print listed again with the
\* same status gives no second message. A poll without a client or with an
\* unauthenticated one lists nothing, sends nothing and changes no row.
C18_NotifyOnTransition ==
    [][polled'.turn # polled.turn =>
        IF polled'.client # "authenticated"
        THEN /\ ~polled'.fetched
             /\ polled'.sent = <<>>
             /\ tracked_prints' = tracked_prints
        ELSE
        LET r == polled'.reports
            n == Len(r)
            \* the tracked status of the print of report i when it is listed
            old(i) == LET earlier == {j \in 1..(i - 1) : r[j].guid = r[i].guid}
                      IN  IF earlier # {}
                          THEN upper(r[CHOOSE j \in earlier : \A k \in earlier : k <= j].status)
                          ELSE IF tracked_prints[r[i].guid] = None THEN ""
                          ELSE tracked_prints[r[i].guid][1].last_status
            notified(i) == /\ r[i].guid # ""
                           /\ old(i) # ""
                           /\ old(i) # upper(r[i].status)
                           /\ upper(r[i].status) \in {"FINISHED", "ERROR", "ABORTED"}
            msgs == SelectSeq([i \in 1..n |-> i], notified)
        IN  /\ polled'.fetched
            /\ polled'.sent = [k \in 1..Len(msgs) |->
                                [user_id |-> polled'.user_id, guid |-> r[msgs[k]].guid,
                                 old_status |-> old(msgs[k]),
                                 new_status |-> upper(r[msgs[k]].status)]]
            /\ \A g \in Guids :
                    IF \A i \in 1..n : r[i].guid # g
                    THEN tracked_prints'[g] = tracked_prints[g]
                    ELSE /\ tracked_prints'[g] # None
                         /\ \E i \in 1..n :
                                /\ r[i].guid = g
                                /\ \A j \in (i + 1)..n : r[j].guid # g
                                /\ tracked_prints'[g][1].last_status = upper(r[i].status)
      ]_vars

\* a poll listed a print twice as finished that was tracked as PRINTING: one message
C18_Witness ==
    /\ polled.client = "authenticated"
    /\ Len(polled.reports) = 2
    /\ polled.reports[1].guid = "guid-1" /\ polled.reports[1].status = "finished"
    /\ polled.reports[2] = polled.reports[1]
    /\ Len(polled.sent) = 1
    /\ polled.sent[1].old_status = "PRINTING"
    /\ polled.sent[1].new_status = "FINISHED"
    /\ tracked_prints["guid-1"][1].last_status = "FINISHED"

----------------------------------------------------------------------------
(* Properties of the maintenance tracker *)

\* the status get_due_tasks reports of a task
StatusOf(tasks, task_id) ==
    LET i == CHOOSE j \in 1..Len(tasks) : tasks[j].task_id = task_id
    IN  tasks[i].status

\* C19: maintenance records are kept per (user, printer). A mark_done call
\* leaves what get_due_tasks reports for every other user and for every other
\* printer as it was; with a task id that is no task it returns False and adds
\* no row; with a task it returns True and the task is no longer never_done
\* for its user and printer. A task is never_done for (user, printer) exactly
\* when the log has no row of that user, printer and task.
C19_MaintenanceIsolated ==
    [][/\ asked'.op = "mark_done" =>
            /\ \A u \in Tenants, printer \in Printers :
                    (u # asked'.user_id \/ printer # asked'.printer_serial) =>
                        get_due_tasks(maintenance_log', today', u, printer)
                            = get_due_tasks(maintenance_log, today', u, printer)
            /\ asked'.task_id = "nonexistent_task" =>
                    (~asked'.ok /\ maintenance_log' = maintenance_log)
            /\ asked'.task_id # "nonexistent_task" =>
                    /\ asked'.ok
                    /\ StatusOf(get_due_tasks(maintenance_log', today', asked'.user_id,
                                              asked'.printer_serial), asked'.task_id)
                            # "never_done"
       /\ asked'.op = "get_due_tasks" =>
            \A i \in 1..Len(asked'.tasks) :
                (asked'.tasks[i].status = "never_done") <=>
                    ~\E j \in 1..Len(maintenance_log) :
                        /\ maintenance_log[j].user_id = asked'.user_id
                        /\ maintenance_log[j].printer_serial = asked'.printer_serial
                        /\ maintenance_log[j].task_id = asked'.tasks[i].task_id
      ]_vars

\* user 1 marked the optical window of ABC as done: the task is ok for user 1
\* on ABC and never_done for user 2 on ABC and for user 1 on DEF
C19_Witness ==
    /\ asked.op = "mark_done" /\ asked.ok
    /\ asked.user_id = 1 /\ asked.printer_serial = "ABC"
    /\ asked.task_id = "optical_window_clean"
    /\ StatusOf(get_due_tasks(maintenance_log, today, 1, "ABC"), "optical_window_clean") = "ok"
    /\ StatusOf(get_due_tasks(maintenance_log, today, 2, "ABC"), "optical_window_clean")
            = "never_done"
    /\ StatusOf(get_due_tasks(maintenance_log, today, 1, "DEF"), "optical_window_clean")
            = "never_done"

----------------------------------------------------------------------------
(* Properties of the estimates *)

\* the rows of the ledger of a user and a material dated within the last
\* AVERAGE_WINDOW days
InWindow(user_id, material_code) ==
    {i \in 1..Len(usage) :
        /\ usage[i].user_id = user_id
        /\ usage[i].material_code = material_code
        /\ usage[i].date > today - 30}

\* C20: the average volume of a print of (tenant, material). Without a row of
\* the ledger in the window of 30 days it is the default of the material: 45
\* for FLGPGR05, FLGPBK05 and FLGPCL05, 60 for FLTO2K02, 50 for FLDUCL21 and 50
\* for any other code. Otherwise it is the summed volume over the summed print
\* count of the rows in the window, or 50 when the summed print count is 0.
C20_AveragePrintVolume ==
    last.op = "get_average_print_volume" =>
        LET rows == InWindow(last.user_id, last.id)
            volume == Sum([i \in 1..Len(usage) |->
                            IF i \in rows THEN usage[i].volume_used_ml ELSE 0])
            prints == Sum([i \in 1..Len(usage) |->
                            IF i \in rows THEN usage[i].print_count ELSE 0])
            avg == last.preds
        IN  IF rows = {}
            THEN /\ last.id \in {"FLGPGR05", "FLGPBK05", "FLGPCL05"} => avg = <<45, 1>>
                 /\ last.id = "FLTO2K02" => avg = <<60, 1>>
                 /\ last.id = "FLDUCL21" => avg = <<50, 1>>
                 /\ last.id \notin {"FLGPGR05", "FLGPBK05", "FLGPCL05", "FLTO2K02",
                                    "FLDUCL21"} => avg = <<50, 1>>
            ELSE IF prints = 0 THEN avg = <<50, 1>>
            ELSE avg[2] > 0 /\ avg[1] * prints = volume * avg[2]

\* the average asked for on day 30, with two rows of the tenant and material
\* in the ledger: the one of day 0 has left the window, the one of day 1 holds
\* two prints of 145 ml in all
C20_Witness ==
    /\ last.op = "get_average_print_volume"
    /\ today = 30
    /\ last.preds = <<145, 2>>
    /\ \E i \in 1..Len(usage) :
            /\ usage[i].user_id = last.user_id
            /\ usage[i].material_code = last.id
            /\ usage[i].date = 0

----------------------------------------------------------------------------
(* Properties of the days remaining *)

\* the days of the last 14 on which the ledger has a row of the user and the material
BurnDays(user_id, material_code) ==
    {usage[i].date : i \in {j \in 1..Len(usage) :
        /\ usage[j].user_id = user_id
        /\ usage[j].material_code = material_code
        /\ usage[j].date > today - 14}}

\* the volume of these rows
BurnVolume(user_id, material_code) ==
    Sum([i \in 1..Len(usage) |->
            IF /\ usage[i].user_id = user_id
               /\ usage[i].material_code = material_code
               /\ usage[i].date > today - 14
            THEN usage[i].volume_used_ml ELSE 0])

\* C21: daysRemaining(tenant, material, currentVolume) never divides by zero,
\* whatever the ledger holds. It returns null when the ledger has no day-row of
\* the tenant and the material in the last 14 days or when the daily usage of
\* these rows is 0, and otherwise currentVolume / (their summed volume / the
\* number of day-rows).
C21_DaysRemaining ==
    last.op = "calculate_days_remaining" =>
        LET days == Cardinality(BurnDays(last.user_id, last.id))
            volume == BurnVolume(last.user_id, last.id)
        IN  /\ last.ok
            /\ IF days = 0 \/ volume = 0 THEN last.preds = None
               ELSE /\ last.preds # None
                    /\ last.preds[1][1] * volume = last.volume_ml * days * last.preds[1][2]

----------------------------------------------------------------------------
(* Properties of the queue of print jobs *)

\* C22: the queued job count and the queued volume of a Prediction are the
\* count and the summed estimated_resin_ml of exactly the print jobs of the
\* calling tenant that have the material code of the cartridge and the status
\* queued or printing.
C22_QueuedJobs ==
    (last.op = "predict" /\ last.ok) =>
        \A c \in Stored(last.id) :
            LET counted(job) == /\ job.user_id = last.user_id
                                /\ job.material_code = c.material_code
                                /\ job.status \in {"queued", "printing"}
            IN  /\ last.preds[1].queued_jobs_count =
                        Cardinality({i \in 1..Len(jobs) : counted(jobs[i])})
                /\ last.preds[1].queued_jobs_volume_ml =
                        Sum([i \in 1..Len(jobs) |->
                                IF counted(jobs[i]) THEN jobs[i].estimated_resin_ml ELSE 0])

\* a was created before b: of two naive datetimes the one of the earlier wall
\* clock, of two aware datetimes the one of the earlier instant
created_before(a, b) ==
    \/ a.utcoffset = None /\ b.utcoffset = None /\ a.hour < b.hour
    \/ /\ a.utcoffset # None /\ b.utcoffset # None
       /\ a.hour - a.utcoffset[1] < b.hour - b.utcoffset[1]

\* C23: listActiveJobs(tenant, material?) returns its jobs in FIFO order: of
\* any two jobs returned, the one created earlier comes first, in whatever
\* order the jobs were added or added again.
C23_FIFO ==
    last.op = "get_queued_jobs" =>
        \A i, j \in 1..Len(last.preds) :
            created_before(last.preds[i].created_at, last.preds[j].created_at) => i < j

----------------------------------------------------------------------------
(* Properties of the forecasts of assigned cartridges *)

\* C24: the frame of predict(). Of what is stored, predict() changes nothing
\* but the status of the cartridge: the table of cartridges keeps its ids, and
\* every cartridge keeps its current volume, initial volume, material, owner
\* and printer; the print jobs and the rows of the ledger are as before.
C24_PredictFrame ==
    [][last'.op = "predict" =>
        /\ jobs' = jobs
        /\ usage' = usage
        /\ Len(cartridges') = Len(cartridges)
        /\ \A i \in 1..Len(cartridges) : \E j \in 1..Len(cartridges') :
                cartridges'[j] = [cartridges[i] EXCEPT !.status = cartridges'[j].status]
      ]_vars

\* predict() has made the status of a cartridge that sits in printer ABC empty,
\* while a job is in the queue and the ledger has a row
C24_Witness ==
    /\ last.op = "predict" /\ last.ok
    /\ jobs # <<>> /\ usage # <<>>
    /\ \E c \in Stored(last.id) :
            /\ c.printer_id = Some("ABC")
            /\ c.status = "empty"
            /\ c.current_volume_ml = 45

----------------------------------------------------------------------------
(* Properties of the status of a cartridge that is drawn down *)

\* C25: consume() and setCartridgeVolume never change the status of a
\* cartridge: after the call every cartridge has the status stored before it,
\* also when the new volume lies across a threshold of the status, which stays
\* as it is until predict() computes it.
C25_StatusKept ==
    [][last'.op \in {"consume", "update_cartridge_volume"} =>
        /\ Len(cartridges') = Len(cartridges)
        /\ \A i \in 1..Len(cartridges) :
                /\ cartridges'[i].id = cartridges[i].id
                /\ cartridges'[i].status = cartridges[i].status
      ]_vars

\* consume() has taken a full cartridge to 15 percent and its status is still active
C25_Witness ==
    /\ last.op = "consume" /\ last.ok
    /\ last.balance = 1000 /\ last.volume_ml = 850
    /\ \E c \in Stored(last.id) :
            /\ c.current_volume_ml = 150
            /\ c.status = "active"
            /\ status_of(percent_remaining(c)) = "low"

----------------------------------------------------------------------------
(* Properties of predict() beside consume_resin() *)

\* C26: a consume() that runs beside a predict() on the same cartridge is not
\* undone. When predict() writes the cartridge back, the stored balance of the
\* cartridge stays what it was just before, also when consume() has written it
\* after predict() read the cartridge.
C26_ConsumeNotUndone ==
    [][\A p \in Callers :
        (pc[p] = "store" /\ pc'[p] = "idle")
        => \A c \in Stored(frame[p].cartridge_id) :
                \E i \in 1..Len(cartridges') :
                    /\ cartridges'[i].id = c.id
                    /\ cartridges'[i].current_volume_ml = c.current_volume_ml
      ]_vars

----------------------------------------------------------------------------
(* Properties of two callers that print from one cartridge *)

\* C27: concurrent consume() calls on one cartridge lose no decrement. When the
\* calls made on the cartridge registered with 1000 ml have all returned, the
\* stored balance is max(0, 1000 - the sum of their volumes).
C27_NoLostDecrement ==
    Quiescent =>
        \A c \in Stored("cart_001") :
            c.current_volume_ml = Max(0, 1000 - log[<<0, 1, "FLGPGR05">>].volume_ml)

----------------------------------------------------------------------------
(* Properties of removed cartridges *)

\* C28: the status removed is absorbing under forecasts and consumption. A
\* cartridge stored with the status removed still has it after any predict()
\* or consume() call, so that it is never listed or forecast again.
C28_RemovedAbsorbing ==
    [][last'.op \in {"predict", "consume"} =>
        \A i \in 1..Len(cartridges) :
            cartridges[i].status = "removed" =>
                \E j \in 1..Len(cartridges') :
                    /\ cartridges'[j].id = cartridges[i].id
                    /\ cartridges'[j].status = "removed"
      ]_vars

----------------------------------------------------------------------------
(* Properties of the ledger under prints made one at a time *)

\* C29: ledger conservation. After any sequence of consume() calls, for every
\* day, tenant and material the volume the ledger holds is the sum of the
\* volumes requested by the consume() calls of that day that returned true for
\* the tenant on a cartridge of the material, and the print count is their
\* number: log counts exactly these calls, a call that returned false adds
\* nothing to it, and the ledger agrees with it.
C29_LedgerConservation ==
    /\ [](\A k \in Keys : /\ KeyVolume(usage, k) = log[k].volume_ml
                          /\ KeyPrints(usage, k) = log[k].prints)
    /\ [][last'.op = "consume" =>
            \A k \in Keys :
                LET counted == /\ last'.ok
                               /\ \E c \in Stored(last'.id) :
                                    k = <<today, last'.user_id, c.material_code>>
                IN  /\ log'[k].volume_ml =
                            log[k].volume_ml + (IF counted THEN last'.volume_ml ELSE 0)
                    /\ log'[k].prints = log[k].prints + (IF counted THEN 1 ELSE 0)
         ]_vars

\* tenant 1 has printed 100 ml of FLGPGR05 and tenant 2 45 ml of FLTO2K02; the
\* call just made was denied and the ledger holds the two prints in two rows
C29_Witness ==
    /\ last.op = "consume" /\ ~last.ok
    /\ KeyVolume(usage, <<today, 1, "FLGPGR05">>) = 100
    /\ KeyPrints(usage, <<today, 1, "FLGPGR05">>) = 1
    /\ KeyVolume(usage, <<today, 2, "FLTO2K02">>) = 45
    /\ KeyPrints(usage, <<today, 2, "FLTO2K02">>) = 1
    /\ Len(usage) = 2

----------------------------------------------------------------------------
(* Properties of the access list *)

\* the lists the file holds, or would be created with
AccessLists(file) == IF file = None THEN load_data(file).data ELSE file[1]

\* how often x is in l
Occurrences(l, x) == Cardinality({i \in 1..Len(l) : l[i] = x})

\* C30: the access list. approve_user and reject_user called by a non-admin
\* return false and leave the approved, pending and rejected lists as they
\* were; called by an admin they return true and the user is then approved,
\* respectively rejected. After any sequence of request_access, approve_user
\* and reject_user calls every user id is in at most one of the three lists
\* and at most once in it, and is_allowed(user) is true exactly for the admins
\* and the users of the approved list. A rejected user who calls
\* request_access stays rejected and is not added to pending.
C30_AccessList ==
    /\ [](\A u \in AccessUsers :
            Occurrences(AccessLists(access_file).approved, u)
            + Occurrences(AccessLists(access_file).pending, u)
            + Occurrences(AccessLists(access_file).rejected, u) <= 1)
    /\ [][LET before == AccessLists(access_file)
              after == AccessLists(access_file')
              u == answer'.user_id
          IN  /\ (answer'.op \in {"approve_user", "reject_user"}
                    /\ answer'.admin_id \notin ADMINS)
                 => /\ ~answer'.ok
                    /\ after = before
              /\ (answer'.op = "approve_user" /\ answer'.admin_id \in ADMINS)
                 => /\ answer'.ok
                    /\ Occurrences(after.approved, u) = 1
              /\ (answer'.op = "reject_user" /\ answer'.admin_id \in ADMINS)
                 => /\ answer'.ok
                    /\ Occurrences(after.rejected, u) = 1
              /\ answer'.op = "is_allowed"
                 => /\ answer'.ok <=> (u \in ADMINS \/ Occurrences(before.approved, u) > 0)
                    /\ after = before
              /\ (answer'.op = "request_access" /\ Occurrences(before.rejected, u) > 0)
                 => /\ ~answer'.ok
                    /\ after = before
         ]_vars

\* user 1001, whom the admin has rejected, has asked for access again and is
\* refused, while user 1002 is approved and the admin is the first of the
\* approved users
C30_Witness ==
    /\ answer.op = "request_access" /\ answer.user_id = "1001" /\ ~answer.ok
    /\ access_file # None
    /\ access_file[1].rejected = <<"1001">>
    /\ access_file[1].pending = <<>>
    /\ access_file[1].approved = <<"6217674573", "1002">>

====
